---- MODULE Spec2Model ----
(***************************************************************************)
(* URL accessibility and quality validation engine of reference-refinement *)
(*                                                                         *)
(*   deep_url_validation.py                    ("deep",  prefix D_)        *)
(*   Production_Quality_Framework_Enhanced.py  ("enh",   prefix E_)        *)
(*   Production_Quality_Framework.py           (URLQualityScorer)          *)
(*   integrated_processor_v17_0.py             (IntegratedProcessor)       *)
(*   ref_canvas_backend_v52_patch.py           (post_rank_candidates_v4)   *)
(*                                                                         *)
(* Representation of text.  A fetched page is a record                     *)
(*     [markup : sequence of phrases, words : set of word forms]           *)
(* standing for the text made of the phrases joined by single blanks,      *)
(* followed by the word forms.  The phrases are the ones the barrier       *)
(* patterns look for, the word forms are the ones the content matchers     *)
(* look for; no phrase contains a word form and no word form triggers a    *)
(* barrier pattern.  Scores are integers, confidences are integer          *)
(* percentages (0.7 is 70).                                                *)
(***************************************************************************)
EXTENDS Integers, Sequences, FiniteSets, TLC

\* ---------------------------------------------------------------- bounds
\* longest markup (number of phrases) of a fetched page
MaxLen == 2

\* candidates of one ranking call are at most MaxCands
MaxCands == 2

\* ------------------------------------------------------------ vocabulary
NL == "\n"

\* phrases a page's markup is made of (as they appear, mixed case)
Atoms == { "<title>404 Not Found</title>", "Page Not Found",
           "Subscribe to continue", "Subscribe", "continue",
           "Sign in to continue", "Sign in", "Preview only", NL }

\* str.lower() / re.I on one phrase
LowerAtom(a) ==
    CASE a = "<title>404 Not Found</title>" -> "<title>404 not found</title>"
      [] a = "Page Not Found"               -> "page not found"
      [] a = "Subscribe to continue"        -> "subscribe to continue"
      [] a = "Subscribe"                    -> "subscribe"
      [] a = "Sign in to continue"          -> "sign in to continue"
      [] a = "Sign in"                      -> "sign in"
      [] a = "Preview only"                 -> "preview only"
      [] OTHER                              -> a

\* content.lower(): every phrase of the markup lower-cased
Lower(markup) == [i \in 1..Len(markup) |-> LowerAtom(markup[i])]

\* all sequences over S of length <= n
SeqsUpTo(S, n) == UNION { [1..k -> S] : k \in 0..n }

\* the reference of test_enhanced_framework, and its citation
\*   "Veblen, T. (1899). The Theory of the Leisure Class. Macmillan."
RefAuthor == "veblen, t."
RefTitleWords == << "the", "theory", "of", "the", "leisure", "class" >>
CitationSplit == << "veblen,", "t.", "(1899).", "the", "theory", "of", "the",
                    "leisure", "class.", "macmillan." >>

\* number of characters of the words above (len(w))
WordLen(w) ==
    CASE w = "the" -> 3 [] w = "of" -> 2 [] w = "t." -> 2
      [] w = "theory" -> 6 [] w = "leisure" -> 7 [] w = "class" -> 5
      [] w = "class." -> 6 [] w = "veblen," -> 7 [] w = "veblen" -> 6
      [] w = "(1899)." -> 7 [] w = "macmillan." -> 10
      [] OTHER -> 4

\* word forms a page body may contain
BodyForms == { "veblen", "veblen,", "theory", "leisure", "class", "class." }

\* a text containing "veblen," contains "veblen", likewise "class."
SubstringClosed(ws) ==
    /\ ("veblen," \in ws => "veblen" \in ws)
    /\ ("class." \in ws => "class" \in ws)

Bodies == { ws \in SUBSET BodyForms : SubstringClosed(ws) }

Contents == [markup : SeqsUpTo(Atoms, MaxLen), words : Bodies]

EmptyContent == [markup |-> << >>, words |-> {}]

\* `word in content_lower`
WordIn(w, content) == w \in content.words

\* xs filtered by a predicate, order kept
RECURSIVE SelectWords(_, _, _)
SelectWords(xs, minLen, stop) ==
    IF xs = << >> THEN << >>
    ELSE LET rest == SelectWords(Tail(xs), minLen, stop)
         IN  IF WordLen(Head(xs)) > minLen /\ Head(xs) \notin stop
             THEN << Head(xs) >> \o rest
             ELSE rest

\* xs[:n]
Prefix(xs, n) == SubSeq(xs, 1, IF Len(xs) < n THEN Len(xs) ELSE n)

\* sum(1 for w in xs if w in content)
CountIn(xs, content) == Cardinality({ i \in 1..Len(xs) : WordIn(xs[i], content) })

Min(a, b) == IF a < b THEN a ELSE b
Max(a, b) == IF a > b THEN a ELSE b

\* --------------------------------------------------- detection patterns
\* A pattern is the set of texts it matches, given over the vocabulary:
\*   within : lower-cased phrases the pattern matches inside,
\*   first, second : for a pattern  X.*Y , the phrases holding X and those
\*     holding Y; the pattern matches when one of first precedes one of
\*     second on the same line ('.' does not match a newline).
\* Only the patterns that match some text over the vocabulary are listed,
\* in the order of the source list; no other pattern of the family matches
\* any text over it.
Pat(name, first, second, within) ==
    [name |-> name, first |-> first, second |-> second, within |-> within]

HasSubscribe == { "subscribe", "subscribe to continue" }
HasContinue == { "continue", "subscribe to continue", "sign in to continue" }
HasSignIn == { "sign in", "sign in to continue" }

D_SOFT_404_PATTERNS ==
    << Pat("404 not found", {}, {}, { "<title>404 not found</title>" }),
       Pat("page not found", {}, {}, { "page not found" }),
       Pat("error in title", {}, {}, { "<title>404 not found</title>" }) >>

D_PAYWALL_PATTERNS ==
    << Pat("subscription required", HasSubscribe, HasContinue,
           { "subscribe to continue" }),
       Pat("login to subscribe", HasSignIn, HasSubscribe, {}) >>

D_LOGIN_PATTERNS ==
    << Pat("login to continue", HasSignIn, HasContinue,
           { "sign in to continue" }) >>

D_PREVIEW_PATTERNS ==
    << Pat("limited preview", {}, {}, { "preview only" }) >>

E_SOFT_404_PATTERNS ==
    << Pat("404.*not found|not found.*404", {}, {},
           { "<title>404 not found</title>" }),
       Pat("page not found|page cannot be found", {}, {}, { "page not found" }),
       Pat("<title>[^<]*(404|not found|error)[^<]*</title>", {}, {},
           { "<title>404 not found</title>" }) >>

E_PAYWALL_PATTERNS ==
    << Pat("subscribe to continue", {}, {}, { "subscribe to continue" }) >>

E_LOGIN_PATTERNS ==
    << Pat("sign in to continue", {}, {}, { "sign in to continue" }) >>

E_PREVIEW_PATTERNS ==
    << Pat("preview only", {}, {}, { "preview only" }) >>

\* pattern.search(text): text is a sequence of phrases, already in the case
\* the search is done in
Search(pat, text) ==
    \E i \in 1..Len(text) :
        \/ text[i] \in pat.within
        \/ /\ text[i] \in pat.first
           /\ \E j \in (i+1)..Len(text) :
                 /\ text[j] \in pat.second
                 /\ \A k \in (i+1)..(j-1) : text[k] # NL

\* index of the first pattern of the family that matches, 0 when none does
FirstMatch(family, text) ==
    IF \E i \in 1..Len(family) : Search(family[i], text)
    THEN CHOOSE i \in 1..Len(family) :
            /\ Search(family[i], text)
            /\ \A k \in 1..(i-1) : ~Search(family[k], text)
    ELSE 0

\* ------------------------------------------------ detect_access_barriers
\* D_detect_access_barriers without the early returns: every family is
\* searched and every family that matches sets its flag
D_detect_access_barriers_no_return(content) ==
    LET text == Lower(content.markup)
        s == FirstMatch(D_SOFT_404_PATTERNS, text)
        p == FirstMatch(D_PAYWALL_PATTERNS, text)
        l == FirstMatch(D_LOGIN_PATTERNS, text)
        v == FirstMatch(D_PREVIEW_PATTERNS, text)
    IN  [paywall |-> p # 0, login |-> l # 0, preview |-> v # 0,
         soft_404 |-> s # 0,
         reason |-> IF v # 0 THEN "Preview only: " \o D_PREVIEW_PATTERNS[v].name
                    ELSE IF l # 0 THEN "Login required: " \o D_LOGIN_PATTERNS[l].name
                    ELSE IF p # 0 THEN "Paywall detected: " \o D_PAYWALL_PATTERNS[p].name
                    ELSE IF s # 0 THEN "Soft 404 detected: " \o D_SOFT_404_PATTERNS[s].name
                    ELSE "Accessible content"]

\* deep_url_validation.detect_access_barriers: patterns are compiled with
\* re.I, so the search is case-insensitive
D_detect_access_barriers(content) ==
    LET text == Lower(content.markup)
        none == [paywall |-> FALSE, login |-> FALSE, preview |-> FALSE,
                 soft_404 |-> FALSE, reason |-> "Accessible content"]
        s == FirstMatch(D_SOFT_404_PATTERNS, text)
        p == FirstMatch(D_PAYWALL_PATTERNS, text)
        l == FirstMatch(D_LOGIN_PATTERNS, text)
        v == FirstMatch(D_PREVIEW_PATTERNS, text)
    IN  IF s # 0 THEN
            [none EXCEPT !.soft_404 = TRUE,
                         !.reason = "Soft 404 detected: " \o D_SOFT_404_PATTERNS[s].name]
        ELSE IF p # 0 THEN
            [none EXCEPT !.paywall = TRUE,
                         !.reason = "Paywall detected: " \o D_PAYWALL_PATTERNS[p].name]
        ELSE IF l # 0 THEN
            [none EXCEPT !.login = TRUE,
                         !.reason = "Login required: " \o D_LOGIN_PATTERNS[l].name]
        ELSE IF v # 0 THEN
            [none EXCEPT !.preview = TRUE,
                         !.reason = "Preview only: " \o D_PREVIEW_PATTERNS[v].name]
        ELSE none

\* E_detect_access_barriers with the paywall family searched before the
\* soft-404 family
E_detect_access_barriers_paywall_first(content) ==
    LET text == Lower(content.markup)
        base == [accessible |-> FALSE, score |-> 0, reason |-> "",
                 soft_404 |-> FALSE, paywall |-> FALSE,
                 login_required |-> FALSE, preview_only |-> FALSE]
    IN  IF FirstMatch(E_PAYWALL_PATTERNS, text) # 0 THEN
            [base EXCEPT !.score = 50, !.paywall = TRUE,
                         !.reason = "Paywall detected"]
        ELSE IF FirstMatch(E_SOFT_404_PATTERNS, text) # 0 THEN
            [base EXCEPT !.score = 0, !.soft_404 = TRUE,
                         !.reason = "Soft 404 detected - page not found"]
        ELSE IF FirstMatch(E_LOGIN_PATTERNS, text) # 0 THEN
            [base EXCEPT !.score = 60, !.login_required = TRUE,
                         !.reason = "Login required"]
        ELSE IF FirstMatch(E_PREVIEW_PATTERNS, text) # 0 THEN
            [base EXCEPT !.score = 40, !.preview_only = TRUE,
                         !.reason = "Preview only - full content not accessible"]
        ELSE [base EXCEPT !.accessible = TRUE, !.score = 90,
                          !.reason = "No access barriers detected"]

\* E_detect_access_barriers with the score of the login branch given to
\* the preview branch and the other way round
E_detect_access_barriers_swapped_scores(content) ==
    LET text == Lower(content.markup)
        base == [accessible |-> FALSE, score |-> 0, reason |-> "",
                 soft_404 |-> FALSE, paywall |-> FALSE,
                 login_required |-> FALSE, preview_only |-> FALSE]
    IN  IF FirstMatch(E_SOFT_404_PATTERNS, text) # 0 THEN
            [base EXCEPT !.score = 0, !.soft_404 = TRUE,
                         !.reason = "Soft 404 detected - page not found"]
        ELSE IF FirstMatch(E_PAYWALL_PATTERNS, text) # 0 THEN
            [base EXCEPT !.score = 50, !.paywall = TRUE,
                         !.reason = "Paywall detected"]
        ELSE IF FirstMatch(E_LOGIN_PATTERNS, text) # 0 THEN
            [base EXCEPT !.score = 40, !.login_required = TRUE,
                         !.reason = "Login required"]
        ELSE IF FirstMatch(E_PREVIEW_PATTERNS, text) # 0 THEN
            [base EXCEPT !.score = 60, !.preview_only = TRUE,
                         !.reason = "Preview only - full content not accessible"]
        ELSE [base EXCEPT !.accessible = TRUE, !.score = 90,
                          !.reason = "No access barriers detected"]

\* Production_Quality_Framework_Enhanced.detect_access_barriers: the content
\* is lower-cased, the patterns are searched as written.  The keys a branch
\* does not set are absent from the dict; the caller reads them with
\* .get(key, False), which is what the FALSE fields stand for.
E_detect_access_barriers(content) ==
    LET text == Lower(content.markup)
        base == [accessible |-> FALSE, score |-> 0, reason |-> "",
                 soft_404 |-> FALSE, paywall |-> FALSE,
                 login_required |-> FALSE, preview_only |-> FALSE]
    IN  IF FirstMatch(E_SOFT_404_PATTERNS, text) # 0 THEN
            [base EXCEPT !.score = 0, !.soft_404 = TRUE,
                         !.reason = "Soft 404 detected - page not found"]
        ELSE IF FirstMatch(E_PAYWALL_PATTERNS, text) # 0 THEN
            [base EXCEPT !.score = 50, !.paywall = TRUE,
                         !.reason = "Paywall detected"]
        ELSE IF FirstMatch(E_LOGIN_PATTERNS, text) # 0 THEN
            [base EXCEPT !.score = 60, !.login_required = TRUE,
                         !.reason = "Login required"]
        ELSE IF FirstMatch(E_PREVIEW_PATTERNS, text) # 0 THEN
            [base EXCEPT !.score = 40, !.preview_only = TRUE,
                         !.reason = "Preview only - full content not accessible"]
        ELSE [base EXCEPT !.accessible = TRUE, !.score = 90,
                          !.reason = "No access barriers detected"]

\* ------------------------------------------------------ content matching
\* (matches, confidence) with the confidence in percent
MatchResult(m, c) == [matches |-> m, confidence |-> c]

D_stop_words == { "the", "and", "of", "in", "a", "an", "to", "for", "on", "with", "by" }

\* deep_url_validation.verify_content_match_basic(content, citation)
D_verify_content_match_basic(content) ==
    LET words == SelectWords(CitationSplit, 3, D_stop_words)
        matches == CountIn(Prefix(words, 10), content)
        confidence == Min(100, (matches * 100) \div 5)
    IN  MatchResult(matches >= 3, confidence)

\* What the text-understanding service does with one request:
\*   "error"  the call raises (bad credential, API error, timeout), or
\*   a reply  [conf, is_work]: conf is the set holding the number after the
\*            MATCH: / CONFIDENCE: label ({} when the reply has none), is_work
\*            the word after IS_WORK: ("none" when the reply has none).
AiConfs == { 40, 60, 70, 71, 100, 150 }
AiReplies == [kind : {"reply"},
              conf : {{}} \cup { {n} : n \in AiConfs },
              is_work : { "true", "false", "none" }]
AiOutcomes == { [kind |-> "error"] } \cup AiReplies
NoAi == [kind |-> "unused"]

TheConf(reply) == CHOOSE n \in reply.conf : TRUE

\* deep_url_validation.verify_content_match_ai(content, citation, api_key)
D_verify_content_match_ai(content, outcome) ==
    IF outcome.kind = "error" THEN D_verify_content_match_basic(content)
    ELSE LET confidence == IF outcome.conf # {} THEN TheConf(outcome) ELSE 0
         IN  MatchResult(confidence >= 70, confidence)

\* Production_Quality_Framework_Enhanced.verify_content_match_basic
E_verify_content_match_basic(content) ==
    LET title_words == SelectWords(RefTitleWords, 3, { "the", "and", "for", "with", "from" })
        title_matches == CountIn(title_words, content)
        \* title_confidence >= 0.5, title_confidence being matches / len or 0
        title_half == Len(title_words) > 0 /\ 2 * title_matches >= Len(title_words)
        author_match == WordIn("veblen", content)
        confidence == (IF title_half THEN 60 ELSE 0) + (IF author_match THEN 40 ELSE 0)
    IN  [matches |-> confidence >= 50, confidence |-> confidence, score |-> confidence]

\* Production_Quality_Framework_Enhanced.verify_content_match_with_ai;
\* key: ANTHROPIC_API_KEY is set in the environment
E_verify_content_match_with_ai(content, key, outcome) ==
    IF ~key \/ outcome.kind = "error" THEN E_verify_content_match_basic(content)
    ELSE LET confidence == IF outcome.conf # {} THEN TheConf(outcome) ELSE 50
             is_work == outcome.is_work = "true"
         IN  [matches |-> confidence >= 60 /\ is_work,
              confidence |-> confidence,
              score |-> IF is_work THEN confidence ELSE Min(confidence, 55)]

\* ------------------------------------------------------------- fetching
\* What the network does with one GET (redirects followed):
FetchErrors == { "timeout", "dns failure", "connection refused" }
Statuses == { 200, 404, 503 }
NetOutcomes == [kind : FetchErrors] \cup
               [kind : {"response"}, status : Statuses, content : Contents]

\* a 200 response with the given page
Page(markup, words) ==
    [kind |-> "response", status |-> 200,
     content |-> [markup |-> markup, words |-> words]]

\* D_fetch_with_redirects with an except clause that does not cover the
\* timeout (asyncio.TimeoutError is no aiohttp.ClientError)
D_fetch_with_redirects_uncaught_timeout(net) ==
    IF net.kind = "response"
    THEN [text |-> net.content, status |-> net.status, error |-> "", raised |-> FALSE]
    ELSE [text |-> EmptyContent, status |-> 0, error |-> net.kind,
          raised |-> net.kind = "timeout"]

\* deep_url_validation.fetch_with_redirects: (content, status, headers);
\* raised tells whether an exception leaves the function
D_fetch_with_redirects(net) ==
    IF net.kind = "response"
    THEN [text |-> net.content, status |-> net.status, error |-> "", raised |-> FALSE]
    ELSE \* except Exception as e: return "", 0, {"error": str(e)}
         [text |-> EmptyContent, status |-> 0, error |-> net.kind, raised |-> FALSE]

\* Production_Quality_Framework_Enhanced.fetch_with_redirects:
\* (final_url, content) or None; none is TRUE for None
E_fetch_with_redirects(net) ==
    IF net.kind = "response" /\ net.status < 400
    THEN [none |-> FALSE, content |-> net.content, raised |-> FALSE]
    ELSE \* status >= 400: return None;  except Exception: return None
         [none |-> TRUE, content |-> EmptyContent, raised |-> FALSE]

\* ------------------------------------------------------ validate_url_deep
ValidationResult(valid, accessible, score, reason) ==
    [valid |-> valid, accessible |-> accessible, score |-> score,
     reason |-> reason, paywall |-> FALSE, login_required |-> FALSE,
     preview_only |-> FALSE, soft_404 |-> FALSE, confidence |-> 0,
     content_matches |-> FALSE]

\* deep_url_validation.validate_url_deep, "Determine score based on
\* accessibility"; bonus: the content matched with confidence > 0.7
D_score(barriers, bonus) ==
    IF barriers.soft_404 THEN 0
    ELSE IF barriers.preview THEN 40
    ELSE IF barriers.paywall THEN 50
    ELSE IF barriers.login THEN 60
    ELSE IF bonus THEN 100 ELSE 90

\* the part of deep_url_validation.validate_url_deep after the fetch;
\* f: the fetcher's return value, key: api_key is given, outcome: what the
\* service does if it is called
D_validate_url_deep(f, key, outcome) ==
    IF f.status = 0 THEN
        ValidationResult(FALSE, FALSE, 0, "Connection failed: " \o f.error)
    ELSE IF f.status >= 400 THEN
        [ValidationResult(FALSE, FALSE, 0, "HTTP " \o ToString(f.status) \o " error")
            EXCEPT !.soft_404 = (f.status = 404)]
    ELSE
        LET barriers == D_detect_access_barriers(f.text)
            clear == ~barriers.soft_404 /\ ~barriers.preview
                     /\ ~barriers.paywall /\ ~barriers.login
            m == IF key THEN D_verify_content_match_ai(f.text, outcome)
                        ELSE D_verify_content_match_basic(f.text)
            bonus == clear /\ m.matches /\ m.confidence > 70
            score == D_score(barriers, bonus)
        IN  [valid |-> score > 0,
             accessible |-> score >= 90,
             score |-> score,
             reason |-> IF bonus
                        THEN "Accessible content with high confidence match ("
                             \o ToString(m.confidence) \o "%)"
                        ELSE barriers.reason,
             paywall |-> barriers.paywall,
             login_required |-> barriers.login,
             preview_only |-> barriers.preview,
             soft_404 |-> barriers.soft_404,
             confidence |-> IF clear THEN m.confidence ELSE 0,
             content_matches |-> IF clear THEN m.matches ELSE FALSE]

\* the part of Production_Quality_Framework_Enhanced.validate_url_deep
\* after the fetch
E_validate_url_deep(f, key, outcome) ==
    IF f.none THEN
        [ValidationResult(FALSE, FALSE, 0, "Failed to fetch URL (timeout or error)")
            EXCEPT !.confidence = 100]
    ELSE
        LET access_check == E_detect_access_barriers(f.content)
            content_match == E_verify_content_match_with_ai(f.content, key, outcome)
        IN  IF ~access_check.accessible THEN
                [ValidationResult(FALSE, FALSE, access_check.score, access_check.reason)
                    EXCEPT !.paywall = access_check.paywall,
                           !.login_required = access_check.login_required,
                           !.preview_only = access_check.preview_only,
                           !.soft_404 = access_check.soft_404,
                           !.confidence = 90]
            ELSE IF ~content_match.matches THEN
                [ValidationResult(FALSE, TRUE, content_match.score, "Content mismatch")
                    EXCEPT !.confidence = content_match.confidence]
            ELSE
                [ValidationResult(TRUE, TRUE,
                                  Min(100, 90 + (content_match.confidence * 10) \div 100),
                                  "Accessible and verified")
                    EXCEPT !.confidence = content_match.confidence,
                           !.content_matches = TRUE]

\* D_matcher_called for a validate_url_deep that matches the content of
\* every page it fetched, before looking at what detection found
D_matcher_called_before_detection(f, key, outcome) ==
    IF f.status = 0 \/ f.status >= 400 THEN "none"
    ELSE IF ~key THEN "basic"
    ELSE IF outcome.kind = "error" THEN "ai+basic" ELSE "ai"

\* which matcher a validation run calls: "none", "basic", "ai" or, when the
\* service call fails and the fallback runs, "ai+basic"
D_matcher_called(f, key, outcome) ==
    IF f.status = 0 \/ f.status >= 400 THEN "none"
    ELSE LET b == D_detect_access_barriers(f.text)
         IN  IF b.soft_404 \/ b.preview \/ b.paywall \/ b.login THEN "none"
             ELSE IF ~key THEN "basic"
             ELSE IF outcome.kind = "error" THEN "ai+basic" ELSE "ai"

E_matcher_called(f, key, outcome) ==
    IF f.none THEN "none"
    ELSE IF ~E_detect_access_barriers(f.content).accessible THEN "none"
    ELSE IF ~key THEN "basic"
    ELSE IF outcome.kind = "error" THEN "ai+basic" ELSE "ai"

\* ---------------------------------------------------------------- strings
\* URLs and search-result titles are strings; TLC's Len, SubSeq and \o work
\* on them character by character.
\* Python's  needle in s
In(needle, s) ==
    \E i \in 1..(Len(s) - Len(needle) + 1) : SubSeq(s, i, i + Len(needle) - 1) = needle

AnyIn(needles, s) == \E n \in needles : In(n, s)

\* s.endswith(suffix), s.startswith(prefix)
EndsWith(s, suffix) ==
    Len(s) >= Len(suffix) /\ SubSeq(s, Len(s) - Len(suffix) + 1, Len(s)) = suffix

StartsWith(s, prefix) ==
    Len(s) >= Len(prefix) /\ SubSeq(s, 1, Len(prefix)) = prefix

UpperCase == << "A", "B", "C", "D", "E", "F", "G", "H", "I", "J", "K", "L", "M",
                "N", "O", "P", "Q", "R", "S", "T", "U", "V", "W", "X", "Y", "Z" >>
LowerCase == << "a", "b", "c", "d", "e", "f", "g", "h", "i", "j", "k", "l", "m",
                "n", "o", "p", "q", "r", "s", "t", "u", "v", "w", "x", "y", "z" >>
Digits == { "0", "1", "2", "3", "4", "5", "6", "7", "8", "9" }

\* s.lower()
RECURSIVE StrLower(_)
StrLower(s) ==
    IF s = "" THEN ""
    ELSE LET c == SubSeq(s, 1, 1)
             l == IF \E i \in 1..26 : UpperCase[i] = c
                  THEN LowerCase[CHOOSE i \in 1..26 : UpperCase[i] = c] ELSE c
         IN  l \o StrLower(SubSeq(s, 2, Len(s)))

\* s.replace(old, new)
RECURSIVE Replace(_, _, _)
Replace(s, old, new) ==
    IF Len(s) < Len(old) THEN s
    ELSE IF StartsWith(s, old)
         THEN new \o Replace(SubSeq(s, Len(old) + 1, Len(s)), old, new)
         ELSE SubSeq(s, 1, 1) \o Replace(SubSeq(s, 2, Len(s)), old, new)

\* the k-th smallest member of a set of numbers
Nth(S, k) == CHOOSE x \in S : Cardinality({ y \in S : y < x }) = k - 1

\* the maximal runs of s made of the positions in kept, in order:
\* s.split() with the positions of the non-blanks,
\* re.findall(r"[A-Za-z0-9]+", s) with those of the letters and digits
Runs(s, kept) ==
    LET n == Len(s)
        keep(i) == i \in kept
        starts == { i \in 1..n : keep(i) /\ (i = 1 \/ ~keep(i - 1)) }
        endOf(i) == CHOOSE j \in i..n :
                       /\ \A k \in i..j : keep(k)
                       /\ (j = n \/ ~keep(j + 1))
    IN  [k \in 1..Cardinality(starts) |-> SubSeq(s, Nth(starts, k), endOf(Nth(starts, k)))]

Split(s) == Runs(s, { i \in 1..Len(s) : SubSeq(s, i, i) # " " })

\* urllib.parse.urlparse(url).netloc of an http(s) URL; '' without scheme
Netloc(url) ==
    LET rest == IF StartsWith(url, "https://") THEN SubSeq(url, 9, Len(url))
                ELSE IF StartsWith(url, "http://") THEN SubSeq(url, 8, Len(url))
                ELSE ""
        stops == { i \in 1..Len(rest) : SubSeq(rest, i, i) \in { "/", "?", "#" } }
    IN  IF stops = {} THEN rest ELSE SubSeq(rest, 1, Nth(stops, 1) - 1)

\* ------------------------------------------- Production_Quality_Framework
RefTitle == "The Theory of the Leisure Class"
RefAuthorName == "Veblen, T."
RefYear == 1899

DOMAIN_TIER_SCORES ==
    [tier1_doi |-> 95, tier1_jstor |-> 95, tier1_edu |-> 85, tier1_gov |-> 85,
     tier1_archive |-> 90, tier2_publisher |-> 80, tier3_purchase |-> 60,
     tier4_other |-> 50]

CONTENT_TYPE_MODIFIERS ==
    [doi_link |-> 10, pdf |-> 5, article_page |-> 5, book_page |-> 0,
     html_page |-> 0, purchase_page |-> -10]

RELATIONSHIP_TYPE_SCORES ==
    [review |-> 95, scholarly_discussion |-> 90, reference |-> 85,
     archive |-> 80, organization |-> 75, news_media |-> 70, other |-> 60]

\* the thresholds with the review threshold above the finalizing one
QUALITY_THRESHOLDS_review_below_101 ==
    [auto_finalize_score |-> 85, human_review_score |-> 101,
     rejection_score |-> 50, primary_minimum |-> 70, secondary_minimum |-> 65]

QUALITY_THRESHOLDS ==
    [auto_finalize_score |-> 85, human_review_score |-> 70,
     rejection_score |-> 50, primary_minimum |-> 70, secondary_minimum |-> 65]

\* URLQualityScorer._extract_domain
Q_extract_domain(url) == Replace(Netloc(url), "www.", "")

\* URLQualityScorer._classify_domain_tier
Q_classify_domain_tier(domain) ==
    IF domain = "" THEN "tier4_other"
    ELSE IF In("doi.org", domain) THEN "tier1_doi"
    ELSE IF In("jstor.org", domain) THEN "tier1_jstor"
    ELSE IF In("archive.org", domain) THEN "tier1_archive"
    ELSE IF EndsWith(domain, ".edu") THEN "tier1_edu"
    ELSE IF EndsWith(domain, ".gov") THEN "tier1_gov"
    ELSE IF AnyIn({ "press", "publisher", "publishing" }, domain) THEN "tier2_publisher"
    ELSE IF EndsWith(domain, ".org") THEN "tier2_publisher"
    ELSE IF In("amazon", domain) \/ In("google.com/books", domain) THEN "tier3_purchase"
    ELSE "tier4_other"

\* URLQualityScorer._classify_content_type
Q_classify_content_type(url) ==
    LET url_lower == StrLower(url)
    IN  IF In("doi.org", url_lower) THEN "doi_link"
        ELSE IF EndsWith(url_lower, ".pdf") \/ In("/pdf", url_lower) THEN "pdf"
        ELSE IF In("/article", url_lower) \/ In("/articles", url_lower) THEN "article_page"
        ELSE IF In("/book", url_lower) \/ In("/books", url_lower) THEN "book_page"
        ELSE IF In("amazon.com", url_lower) \/ In("google.com/books", url_lower)
             THEN "purchase_page"
        ELSE "html_page"

\* URLQualityScorer._classify_relationship_type
Q_classify_relationship_type(url, domain) ==
    LET url_lower == StrLower(url)
    IN  IF In("review", url_lower) \/ In("jstor.org", domain) THEN "review"
        ELSE IF EndsWith(domain, ".edu") \/ In("scholar", domain) \/ In("academic", domain)
             THEN "scholarly_discussion"
        ELSE IF In("stanford.edu", domain) \/ In("britannica", domain)
                \/ In("encyclopedia", url_lower) THEN "reference"
        ELSE IF In("archive.org", domain) \/ In("repository", domain) THEN "archive"
        ELSE IF AnyIn({ "nytimes", "washingtonpost", "news", "guardian" }, domain)
             THEN "news_media"
        ELSE IF EndsWith(domain, ".org") THEN "organization"
        ELSE "other"

\* URLQualityScorer._determine_confidence
Q_determine_confidence(score, tier) ==
    IF score >= 90 /\ StartsWith(tier, "tier1") THEN "high"
    ELSE IF score >= 75 THEN "medium" ELSE "low"

URLScore(total, tier, ctype) ==
    [total_score |-> total, domain_tier |-> tier, content_type |-> ctype,
     confidence |-> Q_determine_confidence(total, tier)]

\* URLQualityScorer.score_primary_url
Q_score_primary_url(url) ==
    IF url = "" THEN [URLScore(0, "none", "none") EXCEPT !.confidence = "medium"]
    ELSE LET tier == Q_classify_domain_tier(Q_extract_domain(url))
             content_type == Q_classify_content_type(url)
             total_score == DOMAIN_TIER_SCORES[tier] + CONTENT_TYPE_MODIFIERS[content_type]
         IN  URLScore(Min(100, Max(0, total_score)), tier, content_type)

\* URLQualityScorer.score_secondary_url
Q_score_secondary_url(url, primary_url) ==
    IF url = "" THEN [URLScore(0, "none", "none") EXCEPT !.confidence = "medium"]
    ELSE IF url = primary_url
         THEN [URLScore(0, "duplicate", "duplicate") EXCEPT !.confidence = "medium"]
    ELSE LET domain == Q_extract_domain(url)
             tier == Q_classify_domain_tier(domain)
         IN  URLScore(RELATIONSHIP_TYPE_SCORES[Q_classify_relationship_type(url, domain)],
                      tier, "secondary")

\* ---------------- Production_Quality_Framework_Enhanced, the Enhanced scorer
PRIMARY_REJECTION_PHRASES ==
    { "review of", ": a review", "book review", "analysis of", "critique of",
      "commentary on", "discussion of", "response to", "examining",
      "evaluating", "assessing", "essay on", "thoughts on" }

PAYWALL_DOMAINS ==
    { "jstor.org", "sciencedirect.com", "springer.com", "wiley.com",
      "tandfonline.com", "sagepub.com", "cambridge.org", "oxfordjournals.org",
      "journals.uchicago.edu" }

\* EnhancedURLQualityScorer._check_paywall
E_check_paywall(url) ==
    IF AnyIn(PAYWALL_DOMAINS, Q_extract_domain(url)) THEN 10 ELSE 0

\* E_check_title_for_primary with the penalty of the partial match (10)
\* returned for a rejection phrase
E_check_title_for_primary_small_penalty(candidate_title, title) ==
    IF candidate_title = "" THEN 0
    ELSE LET title_lower == StrLower(candidate_title)
             expected_title == StrLower(title)
             first5 == Prefix(Split(expected_title), 5)
             expected_words == { i \in 1..Len(first5) :
                                   /\ Len(first5[i]) > 3
                                   /\ first5[i] \notin { "the", "and", "for", "with" } }
             matches == Cardinality({ i \in expected_words : In(first5[i], title_lower) })
         IN  IF AnyIn(PRIMARY_REJECTION_PHRASES, title_lower) THEN 10
             ELSE IF expected_title = "" THEN 0
             ELSE IF matches = 0 THEN 20
             ELSE IF 2 * matches < Cardinality(expected_words) THEN 10
             ELSE 0

\* EnhancedURLQualityScorer._check_title_for_primary
E_check_title_for_primary(candidate_title, title) ==
    IF candidate_title = "" THEN 0
    ELSE LET title_lower == StrLower(candidate_title)
             expected_title == StrLower(title)
             first5 == Prefix(Split(expected_title), 5)
             expected_words == { i \in 1..Len(first5) :
                                   /\ Len(first5[i]) > 3
                                   /\ first5[i] \notin { "the", "and", "for", "with" } }
             matches == Cardinality({ i \in expected_words : In(first5[i], title_lower) })
         IN  IF AnyIn(PRIMARY_REJECTION_PHRASES, title_lower) THEN 40
             ELSE IF expected_title = "" THEN 0
             ELSE IF matches = 0 THEN 20
             ELSE IF 2 * matches < Cardinality(expected_words) THEN 10
             ELSE 0

\* EnhancedURLQualityScorer.score_primary_url of a scorer constructed with
\* enable_content_fetching=False (as IntegratedProcessor.__init__ does), so
\* content_penalty stays 0
E_score_primary_url(url, title, candidate_title) ==
    LET base_score == Q_score_primary_url(url)
        title_penalty == E_check_title_for_primary(candidate_title, title)
        paywall_penalty == E_check_paywall(url)
        final_score == Max(0, Min(100, base_score.total_score - title_penalty - paywall_penalty))
    IN  URLScore(final_score, base_score.domain_tier, base_score.content_type)

\* ------------------------------------------------ ref_canvas_backend_v52_patch
\* _domain: re.match(r'^https?://([^/]+)', u), lower-cased; '' if no match
V_domain(u) ==
    LET rest == IF StartsWith(u, "https://") THEN SubSeq(u, 9, Len(u))
                ELSE IF StartsWith(u, "http://") THEN SubSeq(u, 8, Len(u))
                ELSE ""
        stops == { i \in 1..Len(rest) : SubSeq(rest, i, i) = "/" }
        host == IF stops = {} THEN rest ELSE SubSeq(rest, 1, Nth(stops, 1) - 1)
    IN  StrLower(host)

\* _tok: re.findall(r"[A-Za-z0-9]+", s.lower()), as the set _overlap makes of it
IsAlnum(c) == c \in Digits \/ \E i \in 1..26 : c \in { UpperCase[i], LowerCase[i] }
V_tok(s) ==
    LET l == StrLower(s)
        ws == Runs(l, { i \in 1..Len(l) : IsAlnum(SubSeq(l, i, i)) })
    IN  { ws[i] : i \in 1..Len(ws) }
V_overlap(a, b) == Cardinality(a \cap b)

\* re.search(rf"\b{year}\b", tmeta) for a year of digits
YearIn(year, tmeta) ==
    \E i \in 1..(Len(tmeta) - Len(year) + 1) :
        /\ SubSeq(tmeta, i, i + Len(year) - 1) = year
        /\ (i = 1 \/ ~(IsAlnum(SubSeq(tmeta, i - 1, i - 1)) \/ SubSeq(tmeta, i - 1, i - 1) = "_"))
        /\ LET j == i + Len(year)
           IN  j > Len(tmeta) \/ ~(IsAlnum(SubSeq(tmeta, j, j)) \/ SubSeq(tmeta, j, j) = "_")

Bonus(cond, points) == IF cond THEN points ELSE 0

\* _score_primary(u, meta, author, title, year)
V_score_primary(u, meta, author, title, year) ==
    LET d == V_domain(u)
        uL == StrLower(u)
        tmeta == meta.title \o " " \o meta.snippet
    IN  Bonus(In("doi.org", d), 12)
        + Bonus(AnyIn({ "press.", "university", "mitpress", "uchicago", "cambridge",
                        "oxford", "princeton", "stanfordpress", "upenn.edu" }, d), 9)
        + Bonus(AnyIn({ "sagepub", "tandfonline", "springer", "wiley", "sciencedirect",
                        "jstor", "aps.org", "pnas.org", "nature.com", "science.org",
                        "oup.com", "cambridge.org", "oxfordacademic" }, d), 8)
        - Bonus(AnyIn({ "amazon.", "goodreads." }, d), 3)
        - Bonus(AnyIn({ "wikipedia.org", "researchgate.net", "academia.edu",
                        "reddit.", "quora." }, d), 5)
        + Bonus(EndsWith(uL, ".pdf"), 3)
        + 2 * V_overlap(V_tok(title), V_tok(tmeta))
        + V_overlap(V_tok(author), V_tok(tmeta))
        + Bonus(year # 0 /\ YearIn(ToString(year), tmeta), 2)

\* _score_secondary(u, meta, author, title, primary_domain)
V_score_secondary(u, meta, author, title, primary_domain) ==
    LET d == V_domain(u)
        uL == StrLower(u)
        tmeta == meta.title \o " " \o meta.snippet
    IN  Bonus(In("worldcat.org", d) \/ In("oclc.org", d), 10)
        - Bonus(d = primary_domain, 50)
        + Bonus(EndsWith(d, ".edu") /\ In("library", d), 8)
        + Bonus(AnyIn({ "jstor", "gale", "britannica", "archive.org", "hathitrust.org",
                        "books.google.", "muse.jhu.edu" }, d), 6)
        - Bonus(In("doi.org", d), 2)
        + Bonus(EndsWith(uL, ".pdf"), 2)
        + 2 * V_overlap(V_tok(title), V_tok(tmeta))
        + V_overlap(V_tok(author), V_tok(tmeta))

\* ------------------------------------------------ integrated_processor_v17_0
\* list.sort(key=..., reverse=True), keys[i] being the key of xs[i]:
\* descending and stable
StableSortDesc(xs, keys) ==
    LET n == Len(xs)
        pos(i) == 1 + Cardinality({ j \in 1..n : keys[j] > keys[i] })
                    + Cardinality({ j \in 1..(i - 1) : keys[j] = keys[i] })
    IN  [p \in 1..n |-> xs[CHOOSE i \in 1..n : pos(i) = p]]

\* EnhancedURLQualityScorer.score_primary_url_with_candidates for the
\* reference titled RefTitle: the candidates with score and tier added,
\* sorted by score descending (list.sort is stable)
score_primary_url_with_candidates(candidates) ==
    LET scored == [i \in 1..Len(candidates) |->
            LET candidate == candidates[i]
                score == E_score_primary_url(candidate.url, RefTitle, candidate.title)
            IN  [url |-> candidate.url, title |-> candidate.title,
                 snippet |-> candidate.snippet,
                 score |-> score.total_score, tier |-> score.domain_tier]]
    IN  StableSortDesc(scored, [i \in 1..Len(scored) |-> scored[i].score])

\* int(accessibility_score * 0.7 + traditional_score * 0.3) in IEEE doubles.
\* For the scores validate_url_deep returns (0, 40, 50, 60, 90, 100) and
\* traditional scores 0..100 the doubles give floor((7a + 3t) / 10) except
\* at (90, 0), where the sum is 62.99999999999999
final_score(accessibility_score, traditional_score) ==
    IF accessibility_score = 90 /\ traditional_score = 0 THEN 62
    ELSE (7 * accessibility_score + 3 * traditional_score) \div 10

\* IntegratedProcessor.rank_candidates for the reference titled RefTitle
rank_candidates(validated_candidates) ==
    LET ranked == [i \in 1..Len(validated_candidates) |->
            LET cand == validated_candidates[i]
                traditional == E_score_primary_url(cand.url, RefTitle, cand.title).total_score
            IN  [url |-> cand.url, title |-> cand.title, snippet |-> cand.snippet,
                 validation |-> cand.validation,
                 accessibility_score |-> cand.validation.score,
                 traditional_score |-> traditional,
                 final_score |-> final_score(cand.validation.score, traditional)]]
    IN  StableSortDesc(ranked, [i \in 1..Len(ranked) |-> ranked[i].final_score])

\* the first member of a set of positions, as << it >>, or << >> (None)
FirstOf(xs, S) == IF S = {} THEN << >> ELSE << xs[Nth(S, 1)] >>

\* IntegratedProcessor.select_primary
select_primary(ranked_candidates) ==
    FirstOf(ranked_candidates,
            { i \in 1..Len(ranked_candidates) :
                /\ ranked_candidates[i].validation.accessible
                /\ ranked_candidates[i].final_score >= 75 })

\* IntegratedProcessor.select_secondary; exclude is << >> or << candidate >>
select_secondary(ranked_candidates, exclude) ==
    FirstOf(ranked_candidates,
            { i \in 1..Len(ranked_candidates) :
                LET cand == ranked_candidates[i]
                IN  /\ (exclude = << >> \/ cand.url # exclude[1].url)
                    /\ \/ cand.validation.accessible /\ cand.final_score >= 70
                       \/ cand.validation.login_required /\ cand.final_score >= 60 })

UrlOf(picked) == IF picked = << >> THEN "" ELSE picked[1].url

\* IntegratedProcessor.process_reference, steps 5 and after
process_reference_result(ranked, old_primary, old_secondary) ==
    LET primary_candidate == select_primary(ranked)
        secondary_candidate == select_secondary(ranked, primary_candidate)
        changed == UrlOf(primary_candidate) # old_primary
                   \/ UrlOf(secondary_candidate) # old_secondary
        finalized == primary_candidate # << >>
                     /\ primary_candidate[1].validation.accessible
    IN  [new_primary |-> UrlOf(primary_candidate),
         new_secondary |-> UrlOf(secondary_candidate),
         primary_validation |-> IF primary_candidate = << >> THEN << >>
                                ELSE << primary_candidate[1].validation >>,
         secondary_validation |-> IF secondary_candidate = << >> THEN << >>
                                  ELSE << secondary_candidate[1].validation >>,
         changed |-> changed,
         finalized |-> finalized,
         reason |-> (IF changed THEN "URLs updated based on accessibility validation"
                     ELSE "")
                    \o (IF finalized THEN " | Auto-finalized (accessible primary URL found)"
                        ELSE "")]

\* ------------------------- URLQualityScorer.predict_user_selection
\* primary_candidates, secondary_candidates: sequences of URLs (the
\* bib_data and context of each tuple are not read by the scoring)
predict_user_selection(primary_candidates, secondary_candidates) ==
    LET total(x) == x.score.total_score
        totals(xs) == [i \in 1..Len(xs) |-> total(xs[i])]
        scored_primary == [i \in 1..Len(primary_candidates) |->
                             [url |-> primary_candidates[i],
                              score |-> Q_score_primary_url(primary_candidates[i])]]
        primary_scores == StableSortDesc(scored_primary, totals(scored_primary))
        \* None is passed as "": score_secondary_url compares it with url
        \* only after  if not url  has returned
        primary_url == IF Len(primary_scores) > 0 THEN primary_scores[1].url ELSE ""
        scored_secondary == [i \in 1..Len(secondary_candidates) |->
                               [url |-> secondary_candidates[i],
                                score |-> Q_score_secondary_url(secondary_candidates[i],
                                                                primary_url)]]
        secondary_scores == StableSortDesc(scored_secondary, totals(scored_secondary))
        top_primary_score == IF Len(primary_scores) > 0 THEN total(primary_scores[1]) ELSE 0
        top_secondary_score == IF Len(secondary_scores) > 0 THEN total(secondary_scores[1]) ELSE 0
        can_auto_finalize ==
            /\ top_primary_score >= QUALITY_THRESHOLDS.auto_finalize_score
            /\ top_secondary_score >= QUALITY_THRESHOLDS.auto_finalize_score
        needs_review ==
            \/ top_primary_score < QUALITY_THRESHOLDS.human_review_score
            \/ top_secondary_score < QUALITY_THRESHOLDS.human_review_score
        many == Cardinality({ i \in 1..Len(primary_scores) :
                                total(primary_scores[i]) >= 85 }) > 1
        low == top_primary_score < QUALITY_THRESHOLDS.primary_minimum
    IN  [primary_recommended |-> Prefix(primary_scores, 1),
         primary_top_score |-> top_primary_score,
         secondary_recommended |-> Prefix(secondary_scores, 1),
         secondary_top_score |-> top_secondary_score,
         can_auto_finalize |-> can_auto_finalize,
         needs_human_review |-> needs_review,
         edge_cases |-> (IF many THEN << "Multiple high-quality primary options" >>
                         ELSE << >>)
                        \o (IF low THEN << "No acceptable primary URL found" >>
                            ELSE << >>),
         confidence |-> IF can_auto_finalize THEN "high"
                        ELSE IF ~needs_review THEN "medium" ELSE "low"]

\* ------------------ ref_canvas_backend_v52_patch.post_rank_candidates_v4
\* s.strip() for blanks
RECURSIVE Strip(_)
Strip(s) ==
    IF s = "" THEN s
    ELSE IF StartsWith(s, " ") THEN Strip(SubSeq(s, 2, Len(s)))
    ELSE IF EndsWith(s, " ") THEN Strip(SubSeq(s, 1, Len(s) - 1))
    ELSE s

\* the first URL whose score no other beats (if s > best), scores[i]
\* being the score of urls[i]; "" for None
FirstBest(urls, scores) ==
    IF urls = << >> THEN ""
    ELSE urls[CHOOSE i \in 1..Len(urls) :
                /\ \A j \in 1..Len(urls) : scores[j] <= scores[i]
                /\ \A j \in 1..(i - 1) : scores[j] < scores[i]]

\* payload: author, title, year, candidates, llm; pick: what _rank_llm
\* returns when it is called, << >> for None
post_rank_candidates_v4(payload, pick) ==
    LET cands == payload.candidates
        u(i) == Strip(cands[i].url)
        kept == { i \in 1..Len(cands) :
                    u(i) # "" /\ \A j \in 1..(i - 1) : u(j) # u(i) }
        urls == [k \in 1..Cardinality(kept) |-> u(Nth(kept, k))]
        metas(url) == LET c == cands[CHOOSE i \in kept : u(i) = url]
                      IN  [title |-> c.title, snippet |-> c.snippet]
        sp(url) == V_score_primary(url, metas(url), payload.author, payload.title,
                                   payload.year)
        primary == FirstBest(urls, [i \in 1..Len(urls) |-> sp(urls[i])])
        pdom == V_domain(primary)
        ss(url) == V_score_secondary(url, metas(url), payload.author, payload.title, pdom)
        sec == FirstBest(urls, [i \in 1..Len(urls) |-> ss(urls[i])])
    IN  IF payload.llm /\ pick # << >>
        THEN [primary |-> pick[1].primary, secondary |-> pick[1].secondary]
        ELSE [primary |-> primary, secondary |-> sec]

\* ------------------------------------------------- one validation call
\* A caller awaits validate_url_deep(url, ...) of one of the two modules.
VARIABLES
    pc,        \* "idle", "fetching", "fetched", "returned", "raised"
    impl,      \* "deep" or "enh": the module whose validate_url_deep runs
    key,       \* an API key is available to the call
    net,       \* << what the network did >>, << >> before the fetch
    fetched,   \* << the fetcher's return value >>
    ai,        \* what the text-understanding service did, NoAi if not called
    matcher,   \* the matcher the call ran
    result     \* << the ValidationResult returned >>

vvars == << pc, impl, key, net, fetched, ai, matcher, result >>

\* A caller ranks candidates: IntegratedProcessor.process_reference,
\* URLQualityScorer.predict_user_selection or post_rank_candidates_v4.
VARIABLES
    rpc,        \* "idle", "searched", "validated", "ranked", "done"
    rinput,     \* << the arguments of the running call >>
    validated,  \* process_reference: validated_candidates
    ranked,     \* process_reference: ranked
    selection,  \* << what the call returns >>
    tasks       \* deep_validate_candidates: the coroutine of each candidate

rvars == << rpc, rinput, validated, ranked, selection, tasks >>

Impls == { "deep", "enh" }

VInit ==
    /\ pc = "idle"
    /\ impl = "deep"
    /\ key = FALSE
    /\ net = << >>
    /\ fetched = << >>
    /\ ai = NoAi
    /\ matcher = "none"
    /\ result = << >>

\* validate_url_deep is called
Call ==
    /\ pc = "idle"
    /\ \E i \in Impls, k \in BOOLEAN : impl' = i /\ key' = k
    /\ pc' = "fetching"
    /\ net' = << >> /\ fetched' = << >> /\ ai' = NoAi
    /\ matcher' = "none" /\ result' = << >>
    /\ UNCHANGED rvars

FetchOf(i, n) ==
    IF i = "deep" THEN D_fetch_with_redirects(n) ELSE E_fetch_with_redirects(n)

\* await fetch_with_redirects(url)
Fetch ==
    /\ pc = "fetching"
    /\ \E n \in NetOutcomes :
          /\ net' = << n >>
          /\ fetched' = << FetchOf(impl, n) >>
          /\ pc' = IF FetchOf(impl, n).raised THEN "raised" ELSE "fetched"
    /\ UNCHANGED << impl, key, ai, matcher, result >>
    /\ UNCHANGED rvars

MatcherOf(i, f, k, o) ==
    IF i = "deep" THEN D_matcher_called(f, k, o) ELSE E_matcher_called(f, k, o)

ValidateOf(i, f, k, o) ==
    IF i = "deep" THEN D_validate_url_deep(f, k, o) ELSE E_validate_url_deep(f, k, o)

\* the rest of validate_url_deep: status check, barrier detection, content
\* matching (with the service's answer when it is asked), scoring
Validate ==
    /\ pc = "fetched"
    /\ \E o \in AiOutcomes \cup { NoAi } :
          /\ (o = NoAi) = (MatcherOf(impl, fetched[1], key, [kind |-> "reply"]) \in { "none", "basic" })
          /\ ai' = o
          /\ matcher' = MatcherOf(impl, fetched[1], key, o)
          /\ result' = << ValidateOf(impl, fetched[1], key, o) >>
    /\ pc' = "returned"
    /\ UNCHANGED << impl, key, net, fetched >>
    /\ UNCHANGED rvars

\* the caller has the result (or the exception) and may call again
Return ==
    /\ pc \in { "returned", "raised" }
    /\ pc' = "idle"
    /\ impl' = "deep" /\ key' = FALSE
    /\ net' = << >> /\ fetched' = << >> /\ ai' = NoAi
    /\ matcher' = "none" /\ result' = << >>
    /\ UNCHANGED rvars

\* ---------------------------------------------------- one ranking call
\* search results: those of test_enhanced_framework and of search_candidates,
\* a DOI link and a review on a paywalled publisher's site
Candidate(url, title, snippet) == [url |-> url, title |-> title, snippet |-> snippet]
Catalog ==
    { Candidate("https://doi.org/10.1086/250610",
                "The Theory of the Leisure Class", "Veblen 1899"),
      Candidate("https://www.jstor.org/stable/23722430",
                "Analysis of The Theory of the Leisure Class",
                "This paper examines Veblen's arguments..."),
      Candidate("https://archive.org/details/theoryofleisurec01vebl",
                "The theory of the leisure class : an economic study of institutions",
                "Full text of the book..."),
      Candidate("https://example.com/article1.pdf", "Sample Article", "..."),
      Candidate("https://www.sciencedirect.com/science/leisure",
                "Book review: Veblen", "") }
Urls == { c.url : c \in Catalog }

\* what the network and the service do while a candidate is validated, for
\* a processor with (k) or without an anthropic_key
CandidateRuns(k) ==
    { [net |-> [kind |-> "timeout"], ai |-> NoAi],
      [net |-> Page(<< "Preview only" >>, {}), ai |-> NoAi],
      [net |-> Page(<< "Subscribe to continue" >>, {}), ai |-> NoAi],
      [net |-> Page(<< "Sign in to continue" >>, {}), ai |-> NoAi] }
    \cup IF k
         THEN { [net |-> Page(<< >>, {}),
                 ai |-> [kind |-> "reply", conf |-> { 40 }, is_work |-> "true"]],
                [net |-> Page(<< >>, {}),
                 ai |-> [kind |-> "reply", conf |-> { 71 }, is_work |-> "true"]] }
         ELSE { [net |-> Page(<< >>, {}), ai |-> NoAi],
                [net |-> Page(<< >>, BodyForms), ai |-> NoAi] }

RInit ==
    /\ rpc = "idle"
    /\ rinput = << >>
    /\ validated = << >>
    /\ ranked = << >>
    /\ selection = << >>
    /\ tasks = << >>

\* process_reference, steps 1 and 2: the search returns the candidates
SearchCandidates ==
    /\ rpc = "idle"
    /\ \E k \in BOOLEAN, cs \in SeqsUpTo(Catalog, MaxCands),
          old \in { "", "https://archive.org/details/theoryofleisurec01vebl" } :
          rinput' = << [op |-> "process_reference", anthropic_key |-> k,
                        old_primary |-> old, old_secondary |-> "",
                        candidates |-> cs] >>
    /\ rpc' = "searched"
    /\ UNCHANGED << validated, ranked, selection, tasks >>
    /\ UNCHANGED vvars

\* deep_validate_candidates: one pass of the loop validates the next
\* batch_size candidates with asyncio.gather, which raises if a task raises
batch_size == 5

DeepValidateCandidates ==
    /\ rpc = "searched"
    /\ LET cands == rinput[1].candidates
           k == rinput[1].anthropic_key
           from == Len(validated) + 1
           to == Min(Len(validated) + batch_size, Len(cands))
       IN  \E runs \in [from..to -> CandidateRuns(k)] :
              LET f(i) == D_fetch_with_redirects(runs[i].net)
                  batch == [j \in 1..(to - from + 1) |->
                              [url |-> cands[from + j - 1].url,
                               title |-> cands[from + j - 1].title,
                               snippet |-> cands[from + j - 1].snippet,
                               validation |-> D_validate_url_deep(f(from + j - 1), k,
                                                                  runs[from + j - 1].ai)]]
              IN  IF \E i \in from..to : f(i).raised
                  THEN rpc' = "raised" /\ validated' = validated
                  ELSE /\ validated' = validated \o batch
                       /\ rpc' = IF to = Len(cands) THEN "validated" ELSE "searched"
    /\ UNCHANGED << rinput, ranked, selection, tasks >>
    /\ UNCHANGED vvars

\* process_reference, step 4
RankCandidates ==
    /\ rpc = "validated"
    /\ ranked' = rank_candidates(validated)
    /\ rpc' = "ranked"
    /\ UNCHANGED << rinput, validated, selection, tasks >>
    /\ UNCHANGED vvars

\* process_reference, step 5 to the return
SelectUrls ==
    /\ rpc = "ranked"
    /\ selection' = << process_reference_result(ranked, rinput[1].old_primary,
                                                rinput[1].old_secondary) >>
    /\ rpc' = "done"
    /\ UNCHANGED << rinput, validated, ranked, tasks >>
    /\ UNCHANGED vvars

\* a call of URLQualityScorer.predict_user_selection
PredictUserSelection ==
    /\ rpc = "idle"
    /\ \E ps \in SeqsUpTo(Urls, MaxCands), ss \in SeqsUpTo(Urls, MaxCands) :
          /\ rinput' = << [op |-> "predict_user_selection",
                           primary_candidates |-> ps, secondary_candidates |-> ss] >>
          /\ selection' = << predict_user_selection(ps, ss) >>
    /\ rpc' = "done"
    /\ UNCHANGED << validated, ranked, tasks >>
    /\ UNCHANGED vvars

\* what _rank_llm may return: None (no key, no candidates, a failed or
\* unusable reply) or the pair of strings of the service's reply
LlmPicks(cs) ==
    { << >> } \cup
    IF cs = << >> THEN {}
    ELSE { << [primary |-> a, secondary |-> b] >> :
             a \in { cs[i].url : i \in 1..Len(cs) },
             b \in { cs[i].url : i \in 1..Len(cs) } \cup { "" } }

\* a call of post_rank_candidates_v4
PostRankCandidates ==
    /\ rpc = "idle"
    /\ \E cs \in SeqsUpTo(Catalog, MaxCands), llm \in BOOLEAN :
          \E pick \in IF llm THEN LlmPicks(cs) ELSE { << >> } :
             LET payload == [author |-> RefAuthorName, title |-> RefTitle,
                             year |-> RefYear, candidates |-> cs, llm |-> llm]
             IN  /\ rinput' = << [op |-> "post_rank_candidates_v4",
                                  payload |-> payload, pick |-> pick] >>
                 /\ selection' = << post_rank_candidates_v4(payload, pick) >>
    /\ rpc' = "done"
    /\ UNCHANGED << validated, ranked, tasks >>
    /\ UNCHANGED vvars

\* the caller has the selection (or the exception) and may call again
RankReturn ==
    /\ rpc \in { "done", "raised" }
    /\ rpc' = "idle"
    /\ rinput' = << >> /\ validated' = << >> /\ ranked' = << >>
    /\ selection' = << >>
    /\ UNCHANGED tasks
    /\ UNCHANGED vvars

vars == << pc, impl, key, net, fetched, ai, matcher, result,
           rpc, rinput, validated, ranked, selection, tasks >>

Init == VInit /\ RInit

\* calls of validate_url_deep
Next == Call \/ Fetch \/ Validate \/ Return

Spec == Init /\ [][Next]_vars

\* calls of the rankers
RankNext ==
    \/ SearchCandidates \/ DeepValidateCandidates \/ RankCandidates
    \/ SelectUrls \/ PredictUserSelection \/ PostRankCandidates \/ RankReturn

RankSpec == Init /\ [][RankNext]_vars

\* ------------------------------------------- one call of the title scorer
\* search results for the reference: every URL below under every title
ScoreUrls ==
    { "https://doi.org/10.1086/250610",
      "https://www.jstor.org/stable/23722430",
      "https://www.jstor.org/stable/pdf/23722430.pdf",
      "https://archive.org/details/theoryofleisurec01vebl",
      "https://www.gutenberg.org/files/833/833-h.pdf",
      "https://www.cambridge.org/core/books/theory",
      "https://example.com/article1.pdf",
      "https://www.sciencedirect.com/science/leisure" }

ScoreTitles ==
    { "The Theory of the Leisure Class",
      "Analysis of The Theory of the Leisure Class",
      "Book review: Veblen",
      "Sample Article" }

ScoreCatalog == { Candidate(u, t, "") : u \in ScoreUrls, t \in ScoreTitles }

\* a call of EnhancedURLQualityScorer.score_primary_url_with_candidates
ScorePrimaryUrlWithCandidates ==
    /\ rpc = "idle"
    /\ \E cs \in SeqsUpTo(ScoreCatalog, MaxCands) :
          /\ rinput' = << [op |-> "score_primary_url_with_candidates",
                           candidates |-> cs] >>
          /\ selection' = << score_primary_url_with_candidates(cs) >>
    /\ rpc' = "done"
    /\ UNCHANGED << validated, ranked, tasks >>
    /\ UNCHANGED vvars

\* calls of the title scorer
ScoreNext == ScorePrimaryUrlWithCandidates \/ RankReturn

ScoreSpec == Init /\ [][ScoreNext]_vars

\* calls of predict_user_selection
SelectionSpec == Init /\ [][PredictUserSelection \/ RankReturn]_vars

\* ----------------------- deep_validate_candidates, coroutine by coroutine
\* longest candidate list of a call
MaxBatchCands == 6

\* the search results of a call, in the order the search returned them
SearchResults ==
    << Candidate("https://example.com/article1.pdf", "Sample Article", "..."),
       Candidate("https://example.com/article2", "Another Article", "..."),
       Candidate("https://doi.org/10.1086/250610",
                 "The Theory of the Leisure Class", "Veblen 1899"),
       Candidate("https://www.jstor.org/stable/23722430",
                 "Analysis of The Theory of the Leisure Class",
                 "This paper examines Veblen's arguments..."),
       Candidate("https://archive.org/details/theoryofleisurec01vebl",
                 "The theory of the leisure class : an economic study of institutions",
                 "Full text of the book..."),
       Candidate("https://www.sciencedirect.com/science/leisure",
                 "Book review: Veblen", "") >>

\* what the network does with the GET of one coroutine: the server stays
\* silent or answers with the work
TaskNets ==
    { [kind |-> "timeout"],
      Page(<< >>, BodyForms) }

\* what the service does when a coroutine asks it
TaskAis ==
    { [kind |-> "error"],
      [kind |-> "reply", conf |-> { 71 }, is_work |-> "true"] }

\* session.get(..., timeout=aiohttp.ClientTimeout(total=10)) with a server
\* that never answers: the await ends nevertheless
Completes_without_timeout(n) == n.kind # "timeout"

\* session.get(..., timeout=aiohttp.ClientTimeout(total=10)): the await
\* ends whatever the network does, after 10 s with asyncio.TimeoutError
Completes(n) == n.kind \in FetchErrors \cup { "response" }

\* candidates[i:i+batch_size] taken to the end of the list
BatchEnd_whole_list(from, n) == n

\* the last position of candidates[i:i+batch_size], from being i + 1
BatchEnd(from, n) == Min(from + batch_size - 1, n)

\* what the network and the service do with one coroutine, for a call
\* with (k) or without an anthropic_key: the service is asked only about a
\* page that was fetched and shows no barrier
TaskRuns(k) ==
    { r \in [net : TaskNets, ai : TaskAis \cup { NoAi }] :
        (r.ai # NoAi) =
        (D_matcher_called(D_fetch_with_redirects(r.net), k, [kind |-> "reply"]) = "ai") }

\* a coroutine validate_url_deep(...): not created ("new"), awaiting the
\* fetch ("fetching"), or ended with a result ("done") or an exception
\* ("raised"); net and ai: what the network and the service do with it
NewTask == [at |-> "new", net |-> << >>, ai |-> NoAi]

\* the value coroutine i returns
TaskResult(i) ==
    D_validate_url_deep(D_fetch_with_redirects(tasks[i].net[1]),
                        rinput[1].anthropic_key, tasks[i].ai)

\* the batch the loop is at: positions from..to of the candidates
BatchFrom == Len(validated) + 1
BatchTo == BatchEnd(BatchFrom, Len(rinput[1].candidates))

\* deep_validate_candidates(candidates, ref) is called
DvcCall ==
    /\ rpc = "idle"
    /\ \E k \in BOOLEAN, n \in 0..MaxBatchCands :
          /\ rinput' = << [op |-> "deep_validate_candidates", anthropic_key |-> k,
                           candidates |-> [i \in 1..n |->
                               SearchResults[((i - 1) % Len(SearchResults)) + 1]]] >>
          /\ tasks' = [i \in 1..n |-> NewTask]
    /\ rpc' = "looping"
    /\ validated' = << >>
    /\ UNCHANGED << ranked, selection >>
    /\ UNCHANGED vvars

\* one pass of the for loop up to the await: the coroutines of the batch
\* are created and handed to asyncio.gather
StartBatch ==
    /\ rpc = "looping"
    /\ Len(validated) < Len(rinput[1].candidates)
    /\ \E runs \in [BatchFrom..BatchTo -> TaskRuns(rinput[1].anthropic_key)] :
          tasks' = [i \in 1..Len(tasks) |->
                       IF i \in BatchFrom..BatchTo
                       THEN [at |-> "fetching", net |-> << runs[i].net >>,
                             ai |-> runs[i].ai]
                       ELSE tasks[i]]
    /\ rpc' = "gathering"
    /\ UNCHANGED << rinput, validated, ranked, selection >>
    /\ UNCHANGED vvars

\* the await of coroutine i on fetch_with_redirects ends and the coroutine
\* runs to its end: nothing after the fetch gives the event loop a turn
\* (verify_content_match_ai calls client.messages.create synchronously)
TaskStep(i) ==
    /\ rpc \in { "gathering", "raised" }
    /\ i \in 1..Len(tasks)
    /\ tasks[i].at = "fetching"
    /\ Completes(tasks[i].net[1])
    /\ tasks' = [tasks EXCEPT ![i].at =
                    IF D_fetch_with_redirects(tasks[i].net[1]).raised
                    THEN "raised" ELSE "done"]
    /\ UNCHANGED << rpc, rinput, validated, ranked, selection >>
    /\ UNCHANGED vvars

\* validations = await asyncio.gather(*tasks) resumes: with the first
\* exception of a coroutine, or, when all have ended, with their results in
\* the order of the tasks; then the loop body pairs them with the batch
Gather ==
    /\ rpc = "gathering"
    /\ IF \E i \in BatchFrom..BatchTo : tasks[i].at = "raised"
       THEN rpc' = "raised" /\ UNCHANGED validated
       ELSE /\ \A i \in BatchFrom..BatchTo : tasks[i].at = "done"
            /\ validated' = validated \o
                  [j \in 1..(BatchTo - BatchFrom + 1) |->
                     LET cand == rinput[1].candidates[BatchFrom + j - 1]
                     IN  [url |-> cand.url, title |-> cand.title,
                          snippet |-> cand.snippet,
                          validation |-> TaskResult(BatchFrom + j - 1)]]
            /\ rpc' = "looping"
    /\ UNCHANGED << rinput, ranked, selection, tasks >>
    /\ UNCHANGED vvars

\* the loop is over: return validated
DvcReturn ==
    /\ rpc = "looping"
    /\ Len(validated) >= Len(rinput[1].candidates)
    /\ rpc' = "returned"
    /\ UNCHANGED << rinput, validated, ranked, selection, tasks >>
    /\ UNCHANGED vvars

\* the caller has the list (or the exception) and may call again
DvcDone ==
    /\ rpc \in { "returned", "raised" }
    /\ \A i \in 1..Len(tasks) : tasks[i].at # "fetching"
    /\ rpc' = "idle"
    /\ rinput' = << >> /\ validated' = << >> /\ tasks' = << >>
    /\ UNCHANGED << ranked, selection >>
    /\ UNCHANGED vvars

TaskSteps == \E i \in 1..MaxBatchCands : TaskStep(i)

\* calls of deep_validate_candidates
BatchNext == DvcCall \/ StartBatch \/ TaskSteps \/ Gather \/ DvcReturn \/ DvcDone

BatchSpec == Init /\ [][BatchNext]_vars

\* the steps of a running call
Running == StartBatch \/ TaskSteps \/ Gather \/ DvcReturn

\* the event loop keeps running what is ready to run
BatchLiveSpec == Init /\ [][BatchNext]_vars /\ WF_vars(Running)

\* --------------------------------------------- calls of single functions
\* most runs of equal chunks in a response body
MaxRuns == 2

\* fetch_with_redirects(url, max_redirects=5, max_bytes=100000)
max_bytes == 100000

\* the bodies a server streams, as the lengths of the chunks the stream
\* hands out one after the other (iter_chunked(8192): none above 8192)
ChunkStreams ==
    LET ChunkRuns == [size : { 1, 1696, 4096, 8192 }, count : { 1, 12, 13 }]
        RECURSIVE Flat(_)
        Flat(rs) == IF rs = << >> THEN << >>
                    ELSE [i \in 1..Head(rs).count |-> Head(rs).size] \o Flat(Tail(rs))
    IN  { Flat(rs) : rs \in SeqsUpTo(ChunkRuns, MaxRuns) }

\* deep_url_validation.fetch_with_redirects, the read loop: len(content)
\* when the loop is left, content holding have bytes before chunks arrives
RECURSIVE D_read_content(_, _)
D_read_content(chunks, have) ==
    IF chunks = << >> THEN have
    ELSE IF have + Head(chunks) >= max_bytes THEN have + Head(chunks)
    ELSE D_read_content(Tail(chunks), have + Head(chunks))

\* Production_Quality_Framework_Enhanced.fetch_with_redirects:
\* len(await response.content.read(max_bytes)), buffered chunks of the body
\* having arrived when read returns
E_read_content(chunks, buffered) ==
    LET RECURSIVE Total(_)
        Total(cs) == IF cs = << >> THEN 0 ELSE Head(cs) + Total(Tail(cs))
    IN  Min(max_bytes, Total(SubSeq(chunks, 1, buffered)))

\* a fetch of a body; content.decode('utf-8', errors='ignore') of bytes
\* that are all ASCII gives a text of as many characters
FetchBody ==
    /\ rpc = "idle"
    /\ \E i \in Impls, chunks \in ChunkStreams :
          \E buffered \in IF i = "deep" \/ chunks = << >> THEN { Len(chunks) }
                           ELSE 1..Len(chunks) :
             /\ rinput' = << [op |-> "fetch_with_redirects", impl |-> i,
                              chunks |-> chunks] >>
             /\ selection' = << [text_len |-> IF i = "deep"
                                              THEN D_read_content(chunks, 0)
                                              ELSE E_read_content(chunks, buffered)] >>
    /\ rpc' = "done"
    /\ UNCHANGED << validated, ranked, tasks >>
    /\ UNCHANGED vvars

\* process_unfinalized_v17.PAYWALL_DOMAINS and, with the same members,
\* analyze_existing_urls.PAYWALL_DOMAINS
P_PAYWALL_DOMAINS ==
    { "jstor.org", "science.org", "sciencedirect.com", "springer.com",
      "springerlink.com", "wiley.com", "tandfonline.com", "sagepub.com",
      "cambridge.org", "oxfordjournals.org", "journals.uchicago.edu",
      "taylorfrancis.com", "emerald.com", "academic.oup.com" }

\* process_unfinalized_v17.FREE_DOMAINS
P_FREE_DOMAINS ==
    { "archive.org", "arxiv.org", "researchgate.net", "academia.edu",
      "ssrn.com", "plos.org", "ncbi.nlm.nih.gov", "europepmc.org",
      "pmc.ncbi.nlm.nih.gov" }

\* analyze_existing_urls.FREE_DOMAINS
A_FREE_DOMAINS ==
    { "archive.org", "arxiv.org", "researchgate.net", "academia.edu",
      "ssrn.com", "plos.org", "doi.org/10.1371", "ncbi.nlm.nih.gov",
      "europepmc.org" }

\* process_unfinalized_v17.analyze_url: the category returned (the first
\* member of the pair); get_domain is netloc.lower().replace('www.', '')
P_analyze_url(url) ==
    LET domain == Replace(StrLower(Netloc(url)), "www.", "")
        is(c) == [category |-> c]
    IN  IF AnyIn(P_PAYWALL_DOMAINS, domain) THEN is("PAYWALL")
        ELSE IF AnyIn(P_FREE_DOMAINS, domain) THEN is("FREE")
        ELSE IF In(".edu", domain) THEN is("LIKELY_FREE")
        ELSE IF In(".gov", domain) THEN is("FREE")
        ELSE is("UNCERTAIN")

\* analyze_existing_urls.classify_url
A_classify_url(url) ==
    LET domain == Replace(StrLower(Netloc(url)), "www.", "")
        pair(t, a) == [type |-> t, accessibility |-> a]
    IN  IF AnyIn(P_PAYWALL_DOMAINS, domain)
        THEN IF In("jstor.org", domain) \/ In("doi.org", url)
             THEN pair("paywall", "institutional")
             ELSE pair("paywall", "likely_paywalled")
        ELSE IF AnyIn(A_FREE_DOMAINS, domain) THEN pair("free", "likely_free")
        ELSE IF In(".edu", domain) THEN pair("unknown", "likely_free")
        ELSE IF In(".gov", domain) THEN pair("free", "likely_free")
        ELSE pair("unknown", "uncertain")

\* finalize_unfinalized_refs.assess_url_quality
F_assess_url_quality(url) ==
    LET domain == StrLower(url)
        pair(a, p) == [assessment |-> a, priority |-> p]
    IN  IF AnyIn({ "archive.org", "arxiv.org", ".pdf" }, domain)
        THEN IF In("details", domain) /\ In("archive.org", domain)
             THEN pair("uncertain_archive", 2)
             ELSE pair("excellent", 4)
        ELSE IF AnyIn({ ".edu", ".gov", "researchgate", "academia.edu", "ssrn" }, domain)
        THEN pair("good", 3)
        ELSE IF In("google.com/books", domain) \/ In("books.google", domain)
        THEN pair("uncertain_google", 2)
        ELSE IF AnyIn({ "jstor.org", "science.org", "springer", "wiley", "tandfonline" },
                      domain)
        THEN pair("problematic", 1)
        ELSE pair("uncertain", 2)

\* URLs of the references: every curated domain, with and without www.,
\* with the paths of a landing page, a PDF and a details page; a DOI link,
\* university, government, publisher and storefront pages, and strings that
\* are no URL
ClassifyUrls ==
    { "https://" \o w \o d \o path :
        w \in { "", "www." },
        d \in P_PAYWALL_DOMAINS \cup P_FREE_DOMAINS \cup A_FREE_DOMAINS,
        path \in { "/", "/stable/pdf/2755.pdf", "/details/theoryofleisure" } }
    \cup { "https://doi.org/10.1086/250610", "https://web.mit.edu/veblen/leisure.html",
           "https://www.loc.gov/item/12345", "https://www.penguinpublishing.com/veblen",
           "https://www.gutenberg.org/files/833/833-h.pdf",
           "https://www.amazon.com/dp/0486280624",
           "https://www.google.com/books/edition/_/abc",
           "https://books.google.com/books?id=abc",
           "https://example.com/article1.pdf", "not a url", "" }

\* a call of one of the classifiers of a URL (_classify_domain_tier with
\* the domain _extract_domain gives, as score_primary_url calls it)
ClassifyUrl ==
    /\ rpc = "idle"
    /\ \E url \in ClassifyUrls,
          fn \in { "analyze_url", "classify_url", "assess_url_quality",
                   "_classify_domain_tier" } :
          /\ rinput' = << [op |-> fn, url |-> url] >>
          /\ selection' = << CASE fn = "analyze_url" -> P_analyze_url(url)
                               [] fn = "classify_url" -> A_classify_url(url)
                               [] fn = "_classify_domain_tier" ->
                                    [tier |-> Q_classify_domain_tier(Q_extract_domain(url))]
                               [] OTHER -> F_assess_url_quality(url) >>
    /\ rpc' = "done"
    /\ UNCHANGED << validated, ranked, tasks >>
    /\ UNCHANGED vvars

FunctionNext == FetchBody \/ ClassifyUrl \/ RankReturn

FunctionSpec == Init /\ [][FunctionNext]_vars

\* ------------------------------------------ overnight_pipeline.main
\* most references in the sample and among the unfinalized references
MaxRefs == 3

\* AVG_TIME_THRESHOLD = 2.0 seconds per URL, in tenths of a second
AVG_TIME_THRESHOLD == 20

\* what the validation of a reference of decisions.txt gives: the
\* reference has no URL, or its URL was validated in elapsed tenths of a
\* second and found accessible with a score >= 90, or not
RefOutcomes ==
    { [url |-> FALSE, accessible |-> FALSE, elapsed |-> 0] } \cup
    [url : { TRUE }, accessible : BOOLEAN, elapsed : { 5, 20, 35 }]

\* the counters phase2_sample25_testing and phase4_full_reprocess add up
\* over the references they validate
Counters(refs) ==
    LET RECURSIVE Time(_)
        Time(rs) == IF rs = << >> THEN 0 ELSE Head(rs).elapsed + Time(Tail(rs))
    IN  [total_references |-> Len(refs),
         total_urls |-> Cardinality({ i \in 1..Len(refs) : refs[i].url }),
         accessible |-> Cardinality({ i \in 1..Len(refs) : refs[i].accessible }),
         total_time |-> Time(refs)]

\* phase3_decision with  accessible_rate >= 0.5
phase3_decision_at_half(phase2_results) ==
    LET total_urls == phase2_results.total_urls
    IN  /\ total_urls > 0 => phase2_results.total_time < AVG_TIME_THRESHOLD * total_urls
        /\ total_urls > 0 /\ 2 * phase2_results.accessible >= total_urls

\* phase3_decision: go, that is avg_time < AVG_TIME_THRESHOLD and
\* accessible_rate > 0.5, both being 0 when no URL was tested
phase3_decision(phase2_results) ==
    LET total_urls == phase2_results.total_urls
    IN  /\ total_urls > 0 => phase2_results.total_time < AVG_TIME_THRESHOLD * total_urls
        /\ total_urls > 0 /\ 2 * phase2_results.accessible > total_urls

\* phase5_generate_report: the exception that building the report raises,
\* "" if none; the expressions of the f-string are evaluated in order
phase5_generate_report(phase2_results, decision, phase4_results) ==
    IF phase2_results.total_urls = 0 THEN "ZeroDivisionError"
    ELSE IF "avg_time_per_url" \notin DOMAIN decision.metrics
    THEN "KeyError: avg_time_per_url"
    ELSE IF phase4_results.total_urls = 0 \/ phase4_results.total_references = 0
    THEN "ZeroDivisionError"
    ELSE ""

\* python3 overnight_pipeline.py, decisions.txt holding the sample; the
\* run keeps the phases it entered, the files it wrote and its results
PipelineStart ==
    /\ rpc = "idle"
    /\ \E sample \in SeqsUpTo(RefOutcomes, MaxRefs) :
          rinput' = << [op |-> "overnight_pipeline", sample25 |-> sample] >>
    /\ selection' = << [phases |-> << >>, files |-> {}, error |-> "",
                        phase2_results |-> Counters(<< >>), go |-> FALSE,
                        phase4_results |-> Counters(<< >>)] >>
    /\ rpc' = "phase2"
    /\ UNCHANGED << validated, ranked, tasks >>
    /\ UNCHANGED vvars

\* phase2_sample25_testing: the log of the results divides by total_urls
Phase2 ==
    /\ rpc = "phase2"
    /\ LET results == Counters(rinput[1].sample25)
       IN  IF results.total_urls = 0
           THEN /\ rpc' = "raised"
                /\ selection' = << [selection[1] EXCEPT !.phases = @ \o << 2 >>,
                                        !.error = "ZeroDivisionError"] >>
           ELSE /\ rpc' = "phase3"
                /\ selection' = << [selection[1] EXCEPT !.phases = @ \o << 2 >>,
                                        !.phase2_results = results,
                                        !.files = @ \cup { "phase2_sample25_results.json" }] >>
    /\ UNCHANGED << rinput, validated, ranked, tasks >>
    /\ UNCHANGED vvars

\* phase3_decision and main's test of it: NO-GO halts the pipeline
Phase3 ==
    /\ rpc = "phase3"
    /\ LET go == phase3_decision(selection[1].phase2_results)
       IN  /\ selection' = << [selection[1] EXCEPT !.phases = @ \o << 3 >>,
                                   !.go = go,
                                   !.files = @ \cup { "phase3_decision.json" }] >>
           /\ rpc' = IF go THEN "phase4" ELSE "halted"
    /\ UNCHANGED << rinput, validated, ranked, tasks >>
    /\ UNCHANGED vvars

\* phase4_full_reprocess of the unfinalized references: the summary
\* divides by total_urls_validated
Phase4 ==
    /\ rpc = "phase4"
    /\ \E unfinalized \in SeqsUpTo({ r \in RefOutcomes : r.elapsed <= 5 }, MaxRefs) :
          LET results == Counters(unfinalized)
          IN  IF results.total_urls = 0
              THEN /\ rpc' = "raised"
                   /\ selection' = << [selection[1] EXCEPT !.phases = @ \o << 4 >>,
                                           !.phase4_results = results,
                                           !.error = "ZeroDivisionError"] >>
              ELSE /\ rpc' = "phase5"
                   /\ selection' = << [selection[1] EXCEPT !.phases = @ \o << 4 >>,
                                           !.phase4_results = results] >>
    /\ UNCHANGED << rinput, validated, ranked, tasks >>
    /\ UNCHANGED vvars

\* phase5_generate_report(phase2_results, {'go': decision_data,
\* 'metrics': {}}, phase4_results) and, when it returns,
\* phase6_create_checkpoint and the message that the pipeline is complete
Phase5And6 ==
    /\ rpc = "phase5"
    /\ LET error == phase5_generate_report(selection[1].phase2_results,
                                           [go |-> selection[1].go, metrics |-> << >>],
                                           selection[1].phase4_results)
       IN  IF error # ""
           THEN /\ rpc' = "raised"
                /\ selection' = << [selection[1] EXCEPT !.phases = @ \o << 5 >>,
                                        !.error = error] >>
           ELSE /\ rpc' = "complete"
                /\ selection' = << [selection[1] EXCEPT !.phases = @ \o << 5, 6 >>,
                                        !.files = @ \cup { "phase4_final_report.md",
                                                           "ReferenceRefinementMacPerspective.yaml" }] >>
    /\ UNCHANGED << rinput, validated, ranked, tasks >>
    /\ UNCHANGED vvars

\* the process has ended: halted, complete, or with the exception re-raised
PipelineEnd ==
    /\ rpc \in { "halted", "complete", "raised" }
    /\ rpc' = "idle"
    /\ rinput' = << >> /\ selection' = << >>
    /\ UNCHANGED << validated, ranked, tasks >>
    /\ UNCHANGED vvars

PipelineNext == PipelineStart \/ Phase2 \/ Phase3 \/ Phase4 \/ Phase5And6 \/ PipelineEnd

\* runs of the pipeline; a run that was started goes on phase by phase
PipelineSpec ==
    Init /\ [][PipelineNext]_vars /\ WF_vars(Phase2 \/ Phase3 \/ Phase4 \/ Phase5And6)

\* =====================================================================
\* Properties of a validation call (specification Spec)
\* =====================================================================
\* the call returned a result for a page whose status let detection run
PageValidated ==
    /\ pc = "returned"
    /\ net[1].kind = "response"
    /\ net[1].status < 400

\* some pattern of the family matches the content, for the running module
Hits(i, family, content) ==
    LET text == Lower(content.markup)
    IN  CASE family = "soft_404" ->
               FirstMatch(IF i = "deep" THEN D_SOFT_404_PATTERNS ELSE E_SOFT_404_PATTERNS, text) # 0
          [] family = "paywall" ->
               FirstMatch(IF i = "deep" THEN D_PAYWALL_PATTERNS ELSE E_PAYWALL_PATTERNS, text) # 0
          [] family = "login" ->
               FirstMatch(IF i = "deep" THEN D_LOGIN_PATTERNS ELSE E_LOGIN_PATTERNS, text) # 0
          [] family = "preview" ->
               FirstMatch(IF i = "deep" THEN D_PREVIEW_PATTERNS ELSE E_PREVIEW_PATTERNS, text) # 0

FlagsSet(r) ==
    { f \in { "soft_404", "paywall", "login", "preview" } :
        \/ f = "soft_404" /\ r.soft_404
        \/ f = "paywall" /\ r.paywall
        \/ f = "login" /\ r.login_required
        \/ f = "preview" /\ r.preview_only }

\* ---- C1 ---------------------------------------------------------------
\* the condition a validation result stands for
Condition(i, n, r) ==
    IF n.kind \in FetchErrors THEN "fetch-failed"
    ELSE IF r.soft_404 THEN "soft-404"
    ELSE IF n.status >= 400 THEN "http-error"
    ELSE IF r.preview_only THEN "preview-only"
    ELSE IF r.paywall THEN "paywall"
    ELSE IF r.login_required THEN "login-wall"
    ELSE IF r.content_matches /\ (i = "deep" => r.confidence > 70) THEN "verified"
    ELSE "unverified"

\* position in the order the specification gives, best first
Rank(c) ==
    CASE c = "verified" -> 6 [] c = "unverified" -> 5 [] c = "login-wall" -> 4
      [] c = "paywall" -> 3 [] c = "preview-only" -> 2 [] c = "soft-404" -> 1
      [] c = "fetch-failed" -> 0 [] OTHER -> -1

\* calls whose results the result of the running call is compared with:
\* one page per condition, and the two content matchers on the clean page
SampleCall(n, k, o) == [net |-> n, key |-> k, ai |-> o]
SampleCalls ==
    { SampleCall([kind |-> "timeout"], FALSE, NoAi),
      SampleCall(Page(<< "Page Not Found" >>, {}), FALSE, NoAi),
      SampleCall(Page(<< "Preview only" >>, {}), FALSE, NoAi),
      SampleCall(Page(<< "Subscribe to continue" >>, {}), FALSE, NoAi),
      SampleCall(Page(<< "Sign in to continue" >>, {}), FALSE, NoAi),
      SampleCall(Page(<< >>, {}), FALSE, NoAi),
      SampleCall(Page(<< >>, { "veblen" }), FALSE, NoAi),
      SampleCall(Page(<< >>, BodyForms), FALSE, NoAi),
      SampleCall(Page(<< >>, {}), TRUE,
                 [kind |-> "reply", conf |-> { 40 }, is_work |-> "true"]),
      SampleCall(Page(<< >>, {}), TRUE,
                 [kind |-> "reply", conf |-> { 71 }, is_work |-> "true"]) }

SampleResult(i, s) == ValidateOf(i, FetchOf(i, s.net), s.key, s.ai)
SampleCondition(i, s) == Condition(i, s.net, SampleResult(i, s))

\* the order as the specification states it, between the result of the
\* running call and the result of a sample call of the same module
StrictlyOrdered(i, n, r, s) ==
    LET a == Condition(i, n, r)
        b == SampleCondition(i, s)
        t == SampleResult(i, s)
    IN  /\ (Rank(a) >= 0 /\ Rank(b) >= 0 /\ Rank(a) > Rank(b)) => r.score > t.score
        /\ (Rank(a) >= 0 /\ Rank(b) >= 0 /\ Rank(b) > Rank(a)) => t.score > r.score
        /\ (r.accessible /\ t.login_required) => r.score > t.score
        /\ (t.accessible /\ r.login_required) => t.score > r.score

\* C1 as stated: for every two results, the better condition has the
\* strictly higher score, and every accessible result scores strictly
\* higher than every login-walled one.
C1_AsStated ==
    pc = "returned" =>
        \A s \in SampleCalls : StrictlyOrdered(impl, net[1], result[1], s)

\* ---- C2 ---------------------------------------------------------------
\* C2: a validated page carries at most one barrier flag, the one of the
\* first family in the order soft-404, paywall, login, preview that has a
\* matching pattern, and no flag exactly when no family matches.
C2_OneFindingByPriority ==
    PageValidated =>
        LET c == net[1].content
            r == result[1]
            s == Hits(impl, "soft_404", c)
            p == Hits(impl, "paywall", c)
            l == Hits(impl, "login", c)
            v == Hits(impl, "preview", c)
        IN  /\ Cardinality(FlagsSet(r)) <= 1
            /\ r.soft_404 = s
            /\ r.paywall = (~s /\ p)
            /\ r.login_required = (~s /\ ~p /\ l)
            /\ r.preview_only = (~s /\ ~p /\ ~l /\ v)
            /\ (FlagsSet(r) = {}) = (~s /\ ~p /\ ~l /\ ~v)

\* a page matching both a paywall and a login pattern was reported as paywall
C2_Witness ==
    /\ PageValidated
    /\ Hits(impl, "paywall", net[1].content)
    /\ Hits(impl, "login", net[1].content)
    /\ FlagsSet(result[1]) = { "paywall" }

\* ---- C3 ---------------------------------------------------------------
\* C3: a page whose content matches a soft-404 pattern is reported as
\* SOFT_404 and never as paywall, login or preview, whatever else it
\* contains; its score is 0 and it is not accessible.
C3_Soft404First ==
    ( /\ pc = "returned"
      /\ net[1].kind = "response"
      /\ Hits(impl, "soft_404", net[1].content) ) =>
        LET r == result[1]
        IN  /\ r.score = 0 /\ ~r.accessible
            /\ ~r.paywall /\ ~r.login_required /\ ~r.preview_only
            /\ (net[1].status < 400 => r.soft_404)

\* a 404-titled page that also shows a paywall phrase was reported SOFT_404
C3_Witness ==
    /\ PageValidated
    /\ net[1].content.markup = << "Subscribe to continue", "<title>404 Not Found</title>" >>
    /\ result[1].soft_404 /\ result[1].score = 0

\* ---- C4 ---------------------------------------------------------------
\* C4: each detected condition has its score band and is not accessible:
\* paywall [45,55], login wall [55,65], preview-only [35,45], soft 404
\* [0,5]; content matching no pattern is accessible with a score in
\* [85,95]; "Subscribe to continue" without a 404 phrase is a paywall.
C4_ScoreBands ==
    PageValidated =>
        LET c == net[1].content
            r == result[1]
            a == E_detect_access_barriers(c)
        IN  /\ r.paywall => (r.score \in 45..55 /\ ~r.accessible)
            /\ r.login_required => (r.score \in 55..65 /\ ~r.accessible)
            /\ r.preview_only => (r.score \in 35..45 /\ ~r.accessible)
            /\ r.soft_404 => (r.score \in 0..5 /\ ~r.accessible)
            /\ impl = "enh" =>
                  /\ a.paywall => (a.score \in 45..55 /\ ~a.accessible)
                  /\ a.login_required => (a.score \in 55..65 /\ ~a.accessible)
                  /\ a.preview_only => (a.score \in 35..45 /\ ~a.accessible)
                  /\ a.soft_404 => (a.score \in 0..5 /\ ~a.accessible)
                  /\ (~a.paywall /\ ~a.login_required /\ ~a.preview_only /\ ~a.soft_404)
                        => (a.accessible /\ a.score \in 85..95)
            /\ ( /\ \E k \in 1..Len(c.markup) : c.markup[k] = "Subscribe to continue"
                 /\ ~Hits(impl, "soft_404", c) ) => r.paywall

\* the scenario's page went through Production_Quality_Framework_Enhanced
C4_Witness ==
    /\ PageValidated /\ impl = "enh"
    /\ net[1].content.markup = << "Subscribe to continue" >>
    /\ result[1].paywall /\ result[1].score = 50 /\ ~result[1].accessible

\* ---- C5 ---------------------------------------------------------------
\* C5 as stated: with no barrier detected the result is accessible; it
\* scores 90 when the confidence is below 0.7; when the confidence is 0.7
\* or more the content counts as verified and the score is 90 plus at
\* most 10.
C5_AsStated ==
    (PageValidated /\ FlagsSet(result[1]) = {}) =>
        LET r == result[1]
        IN  /\ r.accessible
            /\ r.confidence < 70 => r.score = 90
            /\ r.confidence >= 70 => (r.content_matches /\ r.score \in 90..100)

\* ---- C7 ---------------------------------------------------------------
\* C7: when the fetch ends in a timeout, DNS failure or connection
\* failure, no exception leaves the fetcher, its value has an empty body,
\* and the validation returns score 0, accessible = false, valid = false.
C7_FetchFailureScoresZero ==
    (net # << >> /\ net[1].kind \in FetchErrors) =>
        /\ pc # "raised"
        /\ ~fetched[1].raised
        /\ IF impl = "deep"
           THEN fetched[1].text = EmptyContent /\ fetched[1].status = 0
           ELSE fetched[1].none /\ fetched[1].content = EmptyContent
        /\ pc = "returned" =>
              (result[1].score = 0 /\ ~result[1].accessible /\ ~result[1].valid)

\* a timed-out fetch was validated
C7_Witness ==
    /\ pc = "returned"
    /\ net[1].kind = "timeout"
    /\ result[1].score = 0

\* ---- C8 ---------------------------------------------------------------
\* C8 as stated: the fetcher's value for a completed response with status
\* >= 400 differs from its value for every fetch that did not complete.
C8_AsStated ==
    ( /\ pc = "fetched"
      /\ net[1].kind = "response"
      /\ net[1].status >= 400 ) =>
        \A e \in FetchErrors : fetched[1] # FetchOf(impl, [kind |-> e])

\* ---- C15 --------------------------------------------------------------
\* C15: a validation run calls a content matcher (and the service behind
\* it) only for a page that was fetched with a status below 400 and on
\* which no barrier pattern of any family matches; for a failed fetch, an
\* HTTP error or a page with a barrier no matcher runs.
C15_MatcherOnlyWhenClear ==
    (pc = "returned" /\ (matcher # "none" \/ ai # NoAi)) =>
        /\ net[1].kind = "response"
        /\ net[1].status < 400
        /\ \A family \in { "soft_404", "paywall", "login", "preview" } :
              ~Hits(impl, family, net[1].content)
        /\ FlagsSet(result[1]) = {}

\* a paywalled page was validated with an API key at hand and no matcher ran
C15_Witness ==
    /\ pc = "returned" /\ key
    /\ net[1].kind = "response" /\ net[1].status < 400
    /\ result[1].paywall
    /\ matcher = "none" /\ ai = NoAi

\* ---- C16 --------------------------------------------------------------
\* the service was not usable in the running call: no credential, the call
\* raised, or the reply holds no confidence to parse
ServiceFailed ==
    \/ ~key
    \/ ai.kind = "error"
    \/ ai.kind = "reply" /\ ai.conf = {}

\* C16 as stated: when a page without barrier is matched and the service
\* fails, no exception leaves the call and the match result (matches,
\* confidence) is the one the call gives with the baseline matcher alone.
C16_AsStated ==
    /\ (pc = "raised") => (ai = NoAi)
    /\ (pc = "returned" /\ matcher # "none" /\ ServiceFailed) =>
          LET baseline == ValidateOf(impl, fetched[1], FALSE, NoAi)
          IN  /\ result[1].content_matches = baseline.content_matches
              /\ result[1].confidence = baseline.confidence

\* ---- C22 --------------------------------------------------------------
\* the significant title words of the reference and those the page holds
SignificantTitleWords ==
    { RefTitleWords[i] : i \in 1..Len(RefTitleWords) } \ D_stop_words

TitleWordsFound == { w \in SignificantTitleWords : WordIn(w, net[1].content) }

\* C22 as stated: when the baseline matcher alone judges a page, the title
\* words contribute at most 60 and the author's surname at most 40 of the
\* confidence, matches is true exactly when the confidence is at least 50,
\* and a page holding every significant title word and the surname matches
\* with a confidence of at least 50.
C22_AsStated ==
    (pc = "returned" /\ matcher = "basic") =>
        LET author == WordIn("veblen", net[1].content)
        IN  /\ ~author => result[1].confidence <= 60
            /\ TitleWordsFound = {} => result[1].confidence <= 40
            /\ result[1].content_matches = (result[1].confidence >= 50)
            /\ (author /\ TitleWordsFound = SignificantTitleWords) =>
                   /\ result[1].content_matches
                   /\ result[1].confidence >= 50

\* ---- C23 --------------------------------------------------------------
\* C23 as stated: the confidence stored in every ValidationResult lies in
\* [0,1] (0..100 in hundredths), whatever number the service returned.
C23_AsStated ==
    (pc = "returned") =>
        (result[1].confidence >= 0 /\ result[1].confidence <= 100)

\* ---- C29 --------------------------------------------------------------
\* what the content matcher of an implementation returns for the page of
\* the running call
MatchOf(i) ==
    IF i = "deep"
    THEN LET m == IF key THEN D_verify_content_match_ai(FetchOf(i, net[1]).text, ai)
                         ELSE D_verify_content_match_basic(FetchOf(i, net[1]).text)
         IN  << m.matches, m.confidence >>
    ELSE LET m == E_verify_content_match_with_ai(FetchOf(i, net[1]).content, key, ai)
         IN  << m.matches, m.confidence >>

\* C29 as stated: when the two implementations of validate_url_deep get
\* the same fetch outcome, find the same barriers and get the same
\* content-match result, they return the same score, the same accessible
\* value and the same valid value.
C29_AsStated ==
    pc = "returned" =>
        LET d == ValidateOf("deep", FetchOf("deep", net[1]), key, ai)
            e == ValidateOf("enh", FetchOf("enh", net[1]), key, ai)
            called(i) == MatcherOf(i, FetchOf(i, net[1]), key, ai)
        IN  ( /\ called("deep") = called("enh")
              /\ d.paywall = e.paywall /\ d.login_required = e.login_required
              /\ d.preview_only = e.preview_only /\ d.soft_404 = e.soft_404
              /\ called("deep") # "none" => MatchOf("deep") = MatchOf("enh") )
            => /\ d.score = e.score
               /\ d.accessible = e.accessible
               /\ d.valid = e.valid

\* =====================================================================
\* Properties of a ranking call (specification RankSpec)
\* =====================================================================
\* the ranker that is running, "none" between calls
Op == IF rinput = << >> THEN "none" ELSE rinput[1].op

\* the URLs a finished call selected, "" for none
SelectedPrimary ==
    CASE Op = "process_reference" -> selection[1].new_primary
      [] Op = "predict_user_selection" -> UrlOf(selection[1].primary_recommended)
      [] OTHER -> selection[1].primary

SelectedSecondary ==
    CASE Op = "process_reference" -> selection[1].new_secondary
      [] Op = "predict_user_selection" -> UrlOf(selection[1].secondary_recommended)
      [] OTHER -> selection[1].secondary

\* how bad the barrier is that a validation found: none, login wall,
\* paywall, preview only, soft 404 or no page at all
Severity(v) ==
    IF v.accessible THEN 0
    ELSE IF v.login_required THEN 1
    ELSE IF v.paywall THEN 2
    ELSE IF v.preview_only THEN 3
    ELSE 4

\* ---- C6 ---------------------------------------------------------------
\* C6 as stated: in a ranking, every candidate whose validation found a
\* login wall has a ranking score in the login-wall band 55..65 whatever
\* its domain, and no candidate with a worse barrier has a higher ranking
\* score than a candidate with a milder barrier.
C6_AsStated ==
    rpc \in { "ranked", "done" } =>
        /\ \A i \in 1..Len(ranked) :
              ranked[i].validation.login_required => ranked[i].final_score \in 55..65
        /\ \A i, j \in 1..Len(ranked) :
              Severity(ranked[i].validation) > Severity(ranked[j].validation)
                 => ranked[i].final_score <= ranked[j].final_score

\* ---- C9 ---------------------------------------------------------------
\* the result says that no acceptable primary was found
ReviewFlagged ==
    IF Op = "process_reference"
    THEN In("no acceptable primary", StrLower(selection[1].reason))
    ELSE /\ selection[1].needs_human_review
         /\ \E i \in 1..Len(selection[1].edge_cases) :
               In("no acceptable primary", StrLower(selection[1].edge_cases[i]))

\* C9 as stated: process_reference selects as primary a highest-scoring
\* candidate among those that are accessible with a score >= 75;
\* predict_user_selection recommends no primary below its minimum; and
\* when no candidate qualifies the primary is unset and the result says
\* that no acceptable primary was found.
C9_AsStated ==
    (rpc = "done" /\ Op \in { "process_reference", "predict_user_selection" }) =>
        IF Op = "process_reference"
        THEN LET qualified == { i \in 1..Len(ranked) :
                                  /\ ranked[i].validation.accessible
                                  /\ ranked[i].final_score >= 75 }
             IN  IF qualified = {}
                 THEN SelectedPrimary = "" /\ ReviewFlagged
                 ELSE \E i \in qualified :
                         /\ ranked[i].url = SelectedPrimary
                         /\ \A j \in qualified :
                               ranked[j].final_score <= ranked[i].final_score
        ELSE IF selection[1].primary_top_score < QUALITY_THRESHOLDS.primary_minimum
             THEN SelectedPrimary = "" /\ ReviewFlagged
             ELSE SelectedPrimary # ""

\* ---- C10 --------------------------------------------------------------
\* C10 as stated: whenever a ranker returns a primary and a secondary URL,
\* the two differ.
C10_AsStated ==
    (rpc = "done" /\ SelectedPrimary # "" /\ SelectedSecondary # "")
        => SelectedPrimary # SelectedSecondary

\* ---- C11 --------------------------------------------------------------
\* the ranked candidates left for the secondary once the primary is taken
Remaining ==
    { i \in 1..Len(ranked) : ranked[i].url # selection[1].new_primary }

\* C11 as stated: process_reference selects as secondary a highest-scoring
\* remaining candidate among those accessible with a score >= 70; a
\* login-walled candidate (score >= 60) is selected only when no remaining
\* candidate is accessible with a score >= 70; otherwise no secondary.
C11_AsStated ==
    (rpc = "done" /\ Op = "process_reference") =>
        LET acc == { i \in Remaining : /\ ranked[i].validation.accessible
                                       /\ ranked[i].final_score >= 70 }
            login == { i \in Remaining : /\ ranked[i].validation.login_required
                                         /\ ranked[i].final_score >= 60 }
        IN  IF acc # {}
            THEN \E i \in acc :
                    /\ ranked[i].url = SelectedSecondary
                    /\ \A j \in acc : ranked[j].final_score <= ranked[i].final_score
            ELSE \/ SelectedSecondary = ""
                 \/ \E i \in login : ranked[i].url = SelectedSecondary

\* ---- C12 --------------------------------------------------------------
\* the distinct primary candidates of the call that score >= 85
HighQuality ==
    { u \in { rinput[1].primary_candidates[i] :
                i \in 1..Len(rinput[1].primary_candidates) } :
        Q_score_primary_url(u).total_score >= 85 }

\* C12 as stated: when more than one primary candidate scores >= 85, the
\* result of predict_user_selection has needs_human_review set and an edge
\* case that mentions the multiple high-quality options.
C12_AsStated ==
    ( /\ rpc = "done" /\ Op = "predict_user_selection"
      /\ Cardinality(HighQuality) > 1 ) =>
        /\ selection[1].needs_human_review
        /\ \E i \in 1..Len(selection[1].edge_cases) :
              In("multiple high-quality", StrLower(selection[1].edge_cases[i]))

\* ---- C14 --------------------------------------------------------------
\* the sequences holding the members of xs in another order (xs included)
Reorderings(xs) ==
    { [i \in 1..Len(xs) |-> xs[f[i]]] : f \in Permutations(1..Len(xs)) }

\* C14 as stated: the ranking and the selected URLs are the same in
\* whatever order the candidates are supplied: rank_candidates returns the
\* same ranking for every reordering of the validated candidates, and
\* predict_user_selection recommends the same primary and secondary for
\* every reordering of its candidate lists.
C14_AsStated ==
    /\ (rpc \in { "ranked", "done" } /\ Op = "process_reference") =>
          \A vs \in Reorderings(validated) : rank_candidates(vs) = ranked
    /\ (rpc = "done" /\ Op = "predict_user_selection") =>
          \A ps \in Reorderings(rinput[1].primary_candidates),
             ss \in Reorderings(rinput[1].secondary_candidates) :
             LET other == predict_user_selection(ps, ss)
             IN  /\ other.primary_recommended = selection[1].primary_recommended
                 /\ other.secondary_recommended = selection[1].secondary_recommended

\* ---- C20 --------------------------------------------------------------
\* a finished ranking call that was given no candidate at all
EmptyCandidates ==
    /\ rpc = "done"
    /\ \/ Op = "process_reference" /\ rinput[1].candidates = << >>
       \/ Op = "post_rank_candidates_v4" /\ rinput[1].payload.candidates = << >>
       \/ /\ Op = "predict_user_selection"
          /\ rinput[1].primary_candidates = << >>
          /\ rinput[1].secondary_candidates = << >>

\* the reasons a selection carries: its reason text or its edge cases
Reasons(sel) ==
    (IF "reason" \in DOMAIN sel /\ sel.reason # "" THEN { sel.reason } ELSE {})
    \cup (IF "edge_cases" \in DOMAIN sel
          THEN { sel.edge_cases[i] : i \in 1..Len(sel.edge_cases) } ELSE {})

\* C20 as stated: ranking an empty candidate list ends without an
\* exception, selects no primary and no secondary, and returns a selection
\* that is flagged for human review and carries an explanatory reason.
C20_AsStated ==
    EmptyCandidates =>
        /\ SelectedPrimary = "" /\ SelectedSecondary = ""
        /\ "needs_human_review" \in DOMAIN selection[1]
        /\ selection[1].needs_human_review
        /\ Reasons(selection[1]) # {}

\* ---- C26 --------------------------------------------------------------
\* C26 as stated: in a ranking, every candidate validated as accessible
\* (validation score >= 90) has a strictly higher final_score than every
\* candidate validated as paywalled (validation score 50), whatever their
\* traditional scores.
C26_AsStated ==
    rpc \in { "ranked", "done" } =>
        \A i, j \in 1..Len(ranked) :
            ( /\ ranked[i].validation.accessible
              /\ ranked[i].validation.score >= 90
              /\ ranked[j].validation.paywall
              /\ ranked[j].validation.score = 50 )
            => ranked[i].final_score > ranked[j].final_score

\* ---- C30 --------------------------------------------------------------
\* C30: in every result of predict_user_selection, can_auto_finalize and
\* needs_human_review are never both true, the confidence is "high"
\* exactly when can_auto_finalize holds and "low" exactly when
\* needs_human_review holds.
C30_FinalizeExcludesReview ==
    (rpc = "done" /\ Op = "predict_user_selection") =>
        LET r == selection[1]
        IN  /\ ~(r.can_auto_finalize /\ r.needs_human_review)
            /\ (r.confidence = "high") = r.can_auto_finalize
            /\ (r.confidence = "low") = r.needs_human_review

\* a selection whose two top scores reach 85 has been returned, marked as
\* finalizable with high confidence
C30_Witness ==
    /\ rpc = "done" /\ Op = "predict_user_selection"
    /\ selection[1].can_auto_finalize
    /\ selection[1].confidence = "high"
    /\ selection[1].primary_top_score >= 85 /\ selection[1].secondary_top_score >= 85

\* =====================================================================
\* Properties of a title-scorer call (specification ScoreSpec)
\* =====================================================================
\* ---- C13 --------------------------------------------------------------
\* the declared title has review/analysis phrasing
ReviewTitle(t) == AnyIn(PRIMARY_REJECTION_PHRASES, StrLower(t))

\* the declared title is the reference's own title
OwnTitle(t) == In(StrLower(RefTitle), StrLower(t)) /\ ~ReviewTitle(t)

C17_FailureStaysLocal ==
    /\ rpc # "raised"
    /\ \A i \in 1..Len(tasks) : tasks[i].at # "raised"
    /\ rpc = "returned" =>
          /\ Len(validated) = Len(rinput[1].candidates)
          /\ \A i \in 1..Len(validated) :
                LET v == validated[i].validation
                    n == tasks[i].net[1]
                IN  /\ validated[i].url = rinput[1].candidates[i].url
                    /\ validated[i].title = rinput[1].candidates[i].title
                    /\ IF n.kind \in FetchErrors
                       THEN /\ v.score = 0 /\ ~v.accessible /\ ~v.valid
                            /\ v.reason = "Connection failed: " \o n.kind
                       ELSE /\ v.score >= 90 /\ v.accessible
                            /\ v = ValidateOf("deep", FetchOf("deep", n),
                                              rinput[1].anthropic_key, tasks[i].ai)

\* a batch returned in which the first fetch timed out and the second
\* candidate was found accessible
C17_Witness ==
    /\ rpc = "returned" /\ Len(validated) >= 2
    /\ tasks[1].net[1].kind = "timeout"
    /\ validated[1].validation.score = 0
    /\ validated[2].validation.accessible

\* ---- C18 --------------------------------------------------------------
\* the coroutines that were created and have not ended
InFlight == { i \in 1..Len(tasks) : tasks[i].at = "fetching" }

\* the batch of five that candidate i belongs to, counted from 0
BatchOf(i) == (i - 1) \div 5

\* C18: at no point are more than 5 validations in flight, and a
\* validation of a later batch is started only when every validation of
\* the batches before it has ended.
C18_BoundedBatches ==
    /\ Cardinality(InFlight) <= 5
    /\ \A i, j \in 1..Len(tasks) :
          (BatchOf(i) < BatchOf(j) /\ tasks[j].at # "new") => tasks[i].at = "done"

\* the sixth candidate is being validated after the first five have ended
C18_Witness ==
    /\ rpc = "gathering" /\ Len(tasks) = 6
    /\ tasks[6].at = "fetching"
    /\ \A i \in 1..5 : tasks[i].at = "done"

\* ---- C19 --------------------------------------------------------------
\* C19: every call of deep_validate_candidates that is running eventually
\* returns the validated list, with a result for every candidate.
C19_ValidationTerminates ==
    [](rpc \in { "looping", "gathering" } =>
          <>(rpc = "returned" /\ Len(validated) = Len(rinput[1].candidates)))

\* a list of two batches was returned although a server never answered
C19_Witness ==
    /\ rpc = "returned" /\ Len(validated) = 6
    /\ \E i \in 1..5 : tasks[i].net[1].kind = "timeout"
    /\ tasks[6].net[1].kind = "timeout"

\* =====================================================================
\* Properties of calls of single functions (specification FunctionSpec)
\* =====================================================================
\* ---- C21 --------------------------------------------------------------
\* C21 as stated: for every response size and every chunking of the
\* stream, the body a fetcher returns is never longer than max_bytes.
C21_AsStated ==
    (rpc = "done" /\ Op = "fetch_with_redirects") =>
        selection[1].text_len <= max_bytes

\* ---- C24 --------------------------------------------------------------
\* the URL classified is on (a subdomain of) a domain of the list
OnDomainOf(list) ==
    LET host == Replace(StrLower(Netloc(rinput[1].url)), "www.", "")
    IN  \E d \in list : host = d \/ EndsWith(host, "." \o d)

\* the classification returned is the paywall one, the free one
SaysPaywall ==
    CASE Op = "analyze_url" -> selection[1].category = "PAYWALL"
      [] Op = "classify_url" -> selection[1].type = "paywall"
      [] OTHER -> selection[1].assessment = "problematic"

SaysFree ==
    CASE Op = "analyze_url" -> selection[1].category = "FREE"
      [] Op = "classify_url" -> selection[1].type = "free"
      [] OTHER -> selection[1].assessment \in { "excellent", "good" }

\* C24 as stated: the curated paywall and free-access lists are disjoint,
\* no URL on a curated free-access domain is classified as paywall, and no
\* URL on a curated paywall domain is classified as free.
C24_AsStated ==
    /\ P_PAYWALL_DOMAINS \cap (P_FREE_DOMAINS \cup A_FREE_DOMAINS) = {}
    /\ (rpc = "done"
         /\ Op \in { "analyze_url", "classify_url", "assess_url_quality" }) =>
          /\ OnDomainOf(P_FREE_DOMAINS \cup A_FREE_DOMAINS) => ~SaysPaywall
          /\ OnDomainOf(P_PAYWALL_DOMAINS) => ~SaysFree

\* ---- C25 --------------------------------------------------------------
\* the tier the stated precedence gives the URL classified: DOI resolvers
\* and archives, then .edu/.gov, then publishers and .org, then the known
\* storefronts (Amazon, Google Books), then everything else
StatedTier ==
    LET url == rinput[1].url
        host == Replace(Netloc(url), "www.", "")
    IN  IF AnyIn({ "doi.org", "jstor.org", "archive.org" }, host) THEN "highest"
        ELSE IF EndsWith(host, ".edu") \/ EndsWith(host, ".gov") THEN "high"
        ELSE IF AnyIn({ "press", "publisher", "publishing" }, host)
                \/ EndsWith(host, ".org") THEN "mid"
        ELSE IF In("amazon", host) \/ host = "books.google.com"
                \/ In("google.com/books", url) THEN "low-mid"
        ELSE "baseline"

\* C25 as stated: _classify_domain_tier gives every URL the tier of the
\* first rule of the precedence that matches; in particular a URL of a
\* known storefront gets the low-mid tier and an empty host the baseline.
C25_AsStated ==
    (rpc = "done" /\ Op = "_classify_domain_tier") =>
        selection[1].tier \in
            CASE StatedTier = "highest" -> { "tier1_doi", "tier1_jstor", "tier1_archive" }
              [] StatedTier = "high" -> { "tier1_edu", "tier1_gov" }
              [] StatedTier = "mid" -> { "tier2_publisher" }
              [] StatedTier = "low-mid" -> { "tier3_purchase" }
              [] OTHER -> { "tier4_other" }

C28_AsStated ==
    [](( /\ Op = "overnight_pipeline" /\ rpc = "phase5"
         /\ selection[1].phase4_results.total_urls >= 1 )
       => <>( /\ rpc = "complete"
              /\ { "phase4_final_report.md", "ReferenceRefinementMacPerspective.yaml" }
                    \subseteq selection[1].files ))

====
